---- MODULE Spec2Model ----
(***************************************************************************)
(* A model of the Reactive Resume MCP adapter: the API client              *)
(* (api-client.ts), the tool handlers registered in index.ts, and the      *)
(* upstream HTTP service they talk to.                                     *)
(*                                                                         *)
(* Every client method and tool handler is an operator that maps a machine *)
(* context m = [cl, up, log, env] (the client object, the upstream store,  *)
(* the HTTP requests issued so far and the ways the upstream may answer)   *)
(* to the SET of outcomes it can have:                                     *)
(* one outcome per way the upstream can answer the requests it makes.      *)
(* An outcome is [m, ok |-> TRUE, val] (the promise resolves) or           *)
(* [m, ok |-> FALSE, err] (it rejects).  An action of a specification      *)
(* applies one whole method or handler and keeps one outcome.              *)
(*                                                                         *)
(* JavaScript objects are records; a key that is undefined is a key that   *)
(* is not in the record's domain.                                          *)
(***************************************************************************)
EXTENDS Integers, Sequences, FiniteSets, TLC

VARIABLES apiClient, upstream, answers, wire, call, result, process

vars == <<apiClient, upstream, answers, wire, call, result, process>>

-----------------------------------------------------------------------------
(* Bounds of the model. *)

\* The most items one resume holds, over all its sections.
MaxItems == 3

\* The most resumes the upstream holds.
MaxResumes == 1

\* The most items a resume holds where every tool is in play.
MaxToolItems == 1

-----------------------------------------------------------------------------
(* JavaScript values. *)

\* null, for the string | null fields of the client.
Null == "<null>"

\* undefined, for an omitted optional string argument.
Undefined == "<undefined>"

\* A header that is not sent.
NoHeader == "<none>"

\* if (s): a string is truthy unless it is null, undefined or empty.
Truthy(s) == s \notin {Null, Undefined, ""}

\* {} and the spread of undefined.
EmptyObj == [k \in {} |-> TRUE]

\* { ...a, ...b }
Spread(a, b) ==
    [k \in (DOMAIN a) \cup (DOMAIN b) |-> IF k \in DOMAIN b THEN b[k] ELSE a[k]]

\* An object without the keys ks.
Without(a, ks) == [k \in (DOMAIN a) \ ks |-> a[k]]

\* array.filter(p) and array.map(f)
FilterSeq(s, Keep(_)) == SelectSeq(s, Keep)

MapSeq(s, F(_)) == [i \in 1..Len(s) |-> F(s[i])]

\* The outcomes of an awaited call.
Ret(m, v) == [m |-> m, ok |-> TRUE, val |-> v]

Throw(m, e) == [m |-> m, ok |-> FALSE, err |-> e]

\* await a; then K(result): a rejection of a passes through.
Then(outs, K(_)) == UNION {IF o.ok THEN K(o) ELSE {o} : o \in outs}

\* The errors the code can raise.
TypeErrorUndefined == [name |-> "TypeError", message |-> "Cannot read properties of undefined"]

TypeErrorNotFunction == [name |-> "TypeError", message |-> "is not a function"]

FetchFailed == [name |-> "TypeError", message |-> "fetch failed"]

SyntaxErrorJson == [name |-> "SyntaxError", message |-> "Unexpected token"]

-----------------------------------------------------------------------------
(* The upstream service: a store of v5 resumes behind an HTTP interface.   *)
(* It answers a request it processes with a 2xx status and stores what it  *)
(* is sent; it may also refuse any request (401, 500), answer with a       *)
(* non-JSON content type, or be unreachable.                               *)

ResumeIdSeq == <<"r1", "r2", "r3">>

\* The ways the upstream answers one request.
Outcomes == {"ok", "text", "s401", "s500", "net"}

NewSection(n) == [id |-> n, name |-> n, visible |-> TRUE, items |-> <<>>]

\* The data of a resume as it is created, without sample data.
NewData ==
    [basics |-> [name |-> "", headline |-> "", email |-> "", phone |-> "", location |-> "",
                 url |-> [label |-> "", href |-> ""]],
     sections |-> [n \in {"summary", "experience", "education", "skills", "projects"}
                     |-> NewSection(n)],
     metadata |-> [template |-> "onyx"]]

Response(status, statusText, json, body, cookies) ==
    [status |-> status, statusText |-> statusText, json |-> json,
     body |-> body, setCookie |-> cookies]

\* response.ok
IsOk(resp) == resp.status >= 200 /\ resp.status <= 299

NotFound == Response(404, "Not Found", TRUE, [text |-> "not found"], <<>>)

FreeIds(up) == {i \in 1..Len(ResumeIdSeq) : ResumeIdSeq[i] \notin DOMAIN up}

\* What the upstream does with a request it processes: the store afterwards
\* and the 2xx (or 404, 400) answer.
Process(up, req) ==
    CASE req.ep = "resume" /\ req.method = "GET" ->
           IF req.id \in DOMAIN up
           THEN [up |-> up, resp |-> Response(200, "OK", TRUE, [resume |-> up[req.id]], <<>>)]
           ELSE [up |-> up, resp |-> NotFound]
      [] req.ep = "resume" /\ req.method = "PUT" ->
           IF req.id \in DOMAIN up
           THEN [up |-> [up EXCEPT ![req.id] = Spread(@, req.body)],
                 resp |-> Response(200, "OK", TRUE, [resume |-> Spread(up[req.id], req.body)], <<>>)]
           ELSE [up |-> up, resp |-> NotFound]
      [] req.ep = "resume" /\ req.method = "DELETE" ->
           IF req.id \in DOMAIN up
           THEN [up |-> [i \in (DOMAIN up) \ {req.id} |-> up[i]],
                 resp |-> Response(200, "OK", TRUE, EmptyObj, <<>>)]
           ELSE [up |-> up, resp |-> NotFound]
      [] req.ep = "lock" ->
           IF req.id \in DOMAIN up
           THEN [up |-> [up EXCEPT ![req.id] = Spread(@, req.body)],
                 resp |-> Response(200, "OK", TRUE, EmptyObj, <<>>)]
           ELSE [up |-> up, resp |-> NotFound]
      [] req.ep = "list" ->
           [up |-> up,
            resp |-> Response(200, "OK", TRUE,
                       [list |-> MapSeq(FilterSeq(ResumeIdSeq, LAMBDA i : i \in DOMAIN up),
                                        LAMBDA i : [id |-> up[i].id, name |-> up[i].name,
                                                    slug |-> up[i].slug,
                                                    isPublic |-> up[i].isPublic,
                                                    isLocked |-> up[i].isLocked,
                                                    createdAt |-> "d0", updatedAt |-> "d0"])], <<>>)]
      [] req.ep = "create" ->
           IF FreeIds(up) # {} /\ Cardinality(DOMAIN up) < MaxResumes
           THEN LET id == ResumeIdSeq[CHOOSE i \in FreeIds(up) : \A j \in FreeIds(up) : i <= j]
                    new == [id |-> id, name |-> req.body.name, slug |-> req.body.slug,
                            isPublic |-> FALSE, isLocked |-> FALSE, data |-> NewData]
                IN [up |-> [i \in (DOMAIN up) \cup {id} |-> IF i = id THEN new ELSE up[i]],
                    resp |-> Response(200, "OK", TRUE, [str |-> id], <<>>)]
           ELSE [up |-> up, resp |-> Response(400, "Bad Request", TRUE, [text |-> "limit"], <<>>)]
      [] req.ep = "sign-in" ->
           [up |-> up,
            resp |-> Response(200, "OK", TRUE, [user |-> [name |-> "n", email |-> "e"]],
                       <<[name |-> "better-auth.session_token", value |-> "t1", attrs |-> "Path=/"]>>)]
      [] req.ep = "refresh" ->
           [up |-> up,
            resp |-> Response(200, "OK", TRUE, EmptyObj,
                       <<[name |-> "Authentication", value |-> "t2", attrs |-> "Path=/"]>>)]
      [] req.ep = "get-session" ->
           [up |-> up, resp |-> Response(200, "OK", TRUE, [user |-> [name |-> "n", email |-> "e"]], <<>>)]
      [] req.ep = "health" ->
           [up |-> up, resp |-> Response(200, "OK", TRUE, [status |-> "ok"], <<>>)]
      [] OTHER ->
           [up |-> up, resp |-> Response(200, "OK", TRUE, EmptyObj, <<>>)]

\* Another client of the upstream, which writes between two requests of
\* this one: to the section the operations here write to, to another
\* section, or to the basics.
Writers == {"w-same", "w-other", "w-basics"}

\* The PUT of a writer, answered with 200: the data of resume r1 with the
\* writer's field changed to a value that is never the one it finds; the
\* resume is stored as written, and the exchange is on the wire.
ExternalWrite(m, kind) ==
    LET Written(old) == IF old = "ext" THEN "ext2" ELSE "ext"
        old == m.up["r1"].data
        data == CASE kind = "w-same" -> [old EXCEPT !.sections["skills"].name = Written(@)]
                  [] kind = "w-other" -> [old EXCEPT !.sections["projects"].name = Written(@)]
                  [] OTHER -> [old EXCEPT !.basics.headline = Written(@)]
    IN [m EXCEPT !.up["r1"].data = data,
                 !.log = Append(@, [req |-> [base |-> "https://a", ep |-> "resume",
                                             id |-> "r1", method |-> "PUT", xApiKey |-> "k9",
                                             authorization |-> NoHeader, cookie |-> <<>>,
                                             body |-> [data |-> data]],
                                    status |-> 200, statusText |-> "OK", bodyText |-> "json",
                                    setCookie |-> <<>>])]

\* The answer of kind o to a request that would be processed as p.
ServeAs(up, o, p) ==
    CASE o = "ok" \/ o \in Writers -> p
      [] o = "text" ->
           IF IsOk(p.resp)
           THEN [up |-> p.up, resp |-> Response(200, "OK", FALSE, [text |-> "plain"], <<>>)]
           ELSE p
      [] o = "s401" ->
           [up |-> up, resp |-> Response(401, "Unauthorized", TRUE, [text |-> "denied"], <<>>)]
      [] o = "s500" ->
           [up |-> up,
            resp |-> Response(500, "Internal Server Error", FALSE, [text |-> "oops"], <<>>)]
      [] OTHER -> [up |-> up, resp |-> Response(0, "", FALSE, [text |-> ""], <<>>)]

\* The answer of kind o to a request.
Serve(up, req, o) == ServeAs(up, o, Process(up, req))

\* await response.text(), as it goes into an error message.
BodyText(resp) == IF "text" \in DOMAIN resp.body THEN resp.body.text ELSE "json"

\* One exchange as the log keeps it: the request and what came back
\* (status 0 when nothing did).
Exchange(req, resp) ==
    [req |-> req, status |-> resp.status, statusText |-> resp.statusText,
     bodyText |-> BodyText(resp), setCookie |-> resp.setCookie]

\* await fetch(url, init), answered in way o: s is what the upstream does.
Answered(m, req, o, s) ==
    IF o = "net"
    THEN Throw([m EXCEPT !.log = Append(@, Exchange(req, s.resp))], FetchFailed)
    ELSE Ret([m EXCEPT !.up = s.up, !.log = Append(@, Exchange(req, s.resp))], s.resp)

Deliver(m, req, o) == Answered(m, req, o, Serve(m.up, req, o))

\* await fetch(url, init): the request goes on the wire and the upstream
\* answers it in one of its ways, after another client has written when the
\* way is one of Writers; fetch rejects when the upstream is unreachable.
fetch(m, req) ==
    {Deliver(IF o \in Writers THEN ExternalWrite(m, o) ELSE m, req, o) : o \in m.env}

\* await response.json(): the parsed body, or a SyntaxError.
ParseJson(m, resp) ==
    IF resp.json THEN Ret(m, resp.body) ELSE Throw(m, SyntaxErrorJson)

-----------------------------------------------------------------------------
(* The API client (api-client.ts).  A client object is the record          *)
(* [baseUrl, apiKey, accessToken, refreshToken, cookies].                  *)

\* baseUrl.replace(/\/$/, "")
StripSlash(url) ==
    CASE url = "https://a/" -> "https://a"
      [] url = "https://b/" -> "https://b"
      [] OTHER -> url

createApiClient(baseUrl) ==
    [baseUrl |-> StripSlash(baseUrl), apiKey |-> Null, accessToken |-> Null,
     refreshToken |-> Null, cookies |-> <<>>]

setApiKey(c, apiKey) == [c EXCEPT !.apiKey = apiKey]

setTokens(c, tokens) ==
    [c EXCEPT !.accessToken = tokens.accessToken, !.refreshToken = tokens.refreshToken]

\* One request as it goes on the wire.  authorization is the bearer token
\* of an "Authorization: Bearer <token>" header.
Req(base, ep, id, method, headers, body) ==
    [base |-> base, ep |-> ep, id |-> id, method |-> method,
     xApiKey |-> headers.xApiKey, authorization |-> headers.authorization,
     cookie |-> headers.cookie, body |-> body]

NoHeaders == [xApiKey |-> NoHeader, authorization |-> NoHeader, cookie |-> <<>>]

\* An error that leaves the body text out.
ApiRequestFailedNoBody(resp) ==
    [name |-> "Error", message |-> "API request failed", status |-> resp.status,
     statusText |-> resp.statusText]

ApiRequestFailed(resp) ==
    [name |-> "Error", message |-> "API request failed", status |-> resp.status,
     statusText |-> resp.statusText, body |-> BodyText(resp)]

\* setCookieHeader.match(/Authentication=([^;]+)/): the value of the first
\* Authentication cookie, or Null.
AuthenticationMatch(setCookie) ==
    LET hits == FilterSeq(setCookie, LAMBDA ck : ck.name = "Authentication")
    IN IF Len(hits) > 0 THEN hits[1].value ELSE Null

\* refreshAccessToken(): resolves to true or false, never rejects.
refreshAccessToken(m) ==
    IF ~Truthy(m.cl.refreshToken)
    THEN {Ret(m, [refreshed |-> FALSE])}
    ELSE LET headers == [NoHeaders EXCEPT
                           !.cookie = <<[name |-> "Refresh", value |-> m.cl.refreshToken]>>]
             req == Req(m.cl.baseUrl, "refresh", "", "POST", headers, EmptyObj)
         IN {IF ~f.ok
             THEN Ret(f.m, [refreshed |-> FALSE])
             ELSE IF ~IsOk(f.val)
             THEN Ret(f.m, [refreshed |-> FALSE])
             ELSE IF AuthenticationMatch(f.val.setCookie) # Null
             THEN Ret([f.m EXCEPT !.cl.accessToken = AuthenticationMatch(f.val.setCookie)],
                      [refreshed |-> TRUE])
             ELSE Ret(f.m, [refreshed |-> FALSE])
             : f \in fetch(m, req)}

\* A request() that drops the session when it is answered with 401.
RespondSigningOut(m, response) ==
    IF response.status = 401
    THEN Throw([m EXCEPT !.cl.accessToken = Null, !.cl.cookies = <<>>],
               ApiRequestFailed(response))
    ELSE IF ~IsOk(response)
    THEN Throw(m, ApiRequestFailed(response))
    ELSE IF response.json
    THEN ParseJson(m, response)
    ELSE Ret(m, [text |-> BodyText(response)])

\* request(), lines 106-117: the answer to the first fetch becomes the result.
Respond(m, response) ==
    IF ~IsOk(response)
    THEN Throw(m, ApiRequestFailed(response))
    ELSE IF response.json
    THEN ParseJson(m, response)
    ELSE Ret(m, [text |-> BodyText(response)])

\* request(), lines 91-102: the retry after a refresh.
RetryRequest(m, req) ==
    LET again == [req EXCEPT !.authorization = m.cl.accessToken]
    IN Then(fetch(m, again),
            LAMBDA f : {IF ~IsOk(f.val)
                        THEN Throw(f.m, ApiRequestFailed(f.val))
                        ELSE ParseJson(f.m, f.val)})

\* A request() that re-sends the request whether or not the refresh succeeded.
AfterFetchAlwaysRetry(m, req, response) ==
    IF response.status = 401 /\ Truthy(m.cl.refreshToken) /\ ~Truthy(m.cl.apiKey)
    THEN UNION {RetryRequest(r.m, req) : r \in refreshAccessToken(m)}
    ELSE {Respond(m, response)}

\* The request() of the client before API keys: a 401 with a refresh token
\* is refreshed whether or not an API key is held.
AfterFetchLegacy(m, req, response) ==
    IF response.status = 401 /\ Truthy(m.cl.refreshToken)
    THEN UNION {IF r.val.refreshed
                THEN RetryRequest(r.m, req)
                ELSE {Respond(r.m, response)}
                : r \in refreshAccessToken(m)}
    ELSE {Respond(m, response)}

\* request(), lines 88-104: a 401 with a refresh token and no API key.
AfterFetch(m, req, response) ==
    IF response.status = 401 /\ Truthy(m.cl.refreshToken) /\ ~Truthy(m.cl.apiKey)
    THEN UNION {IF r.val.refreshed
                THEN RetryRequest(r.m, req)
                ELSE {Respond(r.m, response)}
                : r \in refreshAccessToken(m)}
    ELSE {Respond(m, response)}

RequestHeaders(c) ==
    [xApiKey |-> IF Truthy(c.apiKey) THEN c.apiKey ELSE NoHeader,
     authorization |-> IF ~Truthy(c.apiKey) /\ Truthy(c.accessToken)
                       THEN c.accessToken ELSE NoHeader,
     cookie |-> c.cookies]

\* A request() that sends the request again when it is answered with 500.
requestRetrying(m, ep, id, method, body) ==
    LET req == Req(m.cl.baseUrl, ep, id, method, RequestHeaders(m.cl), body)
    IN Then(fetch(m, req),
            LAMBDA f : IF f.val.status = 500
                       THEN Then(fetch(f.m, req), LAMBDA g : AfterFetch(g.m, req, g.val))
                       ELSE AfterFetch(f.m, req, f.val))

request(m, ep, id, method, body) ==
    LET req == Req(m.cl.baseUrl, ep, id, method, RequestHeaders(m.cl), body)
    IN Then(fetch(m, req), LAMBDA f : AfterFetch(f.m, req, f.val))

\* A login that keeps the session token as the refresh token as well, as
\* the login of the client before API keys did with its Refresh cookie.
StoreCookiesAndRefresh(c, setCookie) ==
    IF Len(setCookie) > 0
    THEN LET sess == FilterSeq(setCookie, LAMBDA ck : ck.name = "better-auth.session_token")
         IN [c EXCEPT !.cookies = MapSeq(setCookie, LAMBDA ck : [name |-> ck.name, value |-> ck.value]),
                      !.accessToken = IF Len(sess) > 0 THEN sess[Len(sess)].value ELSE @,
                      !.refreshToken = IF Len(sess) > 0 THEN sess[Len(sess)].value ELSE @]
    ELSE c

\* login(), lines 137-149: the cookies and the session token are taken over.
StoreCookies(c, setCookie) ==
    IF Len(setCookie) > 0
    THEN LET sess == FilterSeq(setCookie, LAMBDA ck : ck.name = "better-auth.session_token")
         IN [c EXCEPT !.cookies = MapSeq(setCookie, LAMBDA ck : [name |-> ck.name, value |-> ck.value]),
                      !.accessToken = IF Len(sess) > 0 THEN sess[Len(sess)].value ELSE @]
    ELSE c

\* A login that drops the session it holds before it asks for a new one.
loginSigningOutFirst(m, email, password) ==
    LET req == Req(m.cl.baseUrl, "sign-in", "", "POST", NoHeaders,
                   [email |-> email, password |-> password])
        out == [m EXCEPT !.cl.cookies = <<>>, !.cl.accessToken = Null]
    IN Then(fetch(out, req),
            LAMBDA f : {IF ~IsOk(f.val)
                        THEN Throw(f.m, [name |-> "Error", message |-> "Login failed",
                                         status |-> f.val.status, body |-> BodyText(f.val)])
                        ELSE ParseJson([f.m EXCEPT !.cl = StoreCookies(@, f.val.setCookie)],
                                       f.val)})

login(m, email, password) ==
    LET req == Req(m.cl.baseUrl, "sign-in", "", "POST", NoHeaders,
                   [email |-> email, password |-> password])
    IN Then(fetch(m, req),
            LAMBDA f : {IF ~IsOk(f.val)
                        THEN Throw(f.m, [name |-> "Error", message |-> "Login failed",
                                         status |-> f.val.status, body |-> BodyText(f.val)])
                        ELSE ParseJson([f.m EXCEPT !.cl = StoreCookies(@, f.val.setCookie)],
                                       f.val)})

\* The undefined value.
UndefinedVal == [undefined |-> TRUE]

getCurrentUser(m) ==
    Then(request(m, "get-session", "", "GET", EmptyObj),
         LAMBDA r : {Ret(r.m, IF "user" \in DOMAIN r.val THEN r.val.user ELSE UndefinedVal)})

loginWithTokens(m, accessToken, refreshToken) ==
    getCurrentUser([m EXCEPT !.cl.accessToken = accessToken,
                             !.cl.refreshToken = refreshToken])

logout(m) ==
    Then(request(m, "sign-out", "", "POST", EmptyObj),
         LAMBDA r : {Ret([r.m EXCEPT !.cl.accessToken = Null, !.cl.refreshToken = Null,
                                     !.cl.cookies = <<>>], UndefinedVal)})

\* { to: o[from] } when o has the key, {} when o[from] is undefined.
Pick(o, from, to) == IF from \in DOMAIN o THEN [k \in {to} |-> o[from]] ELSE EmptyObj

\* isPublic ? "public" : "private"
VisibilityOf(o) == IF "isPublic" \in DOMAIN o /\ o.isPublic THEN "public" ELSE "private"

\* listResumes(), lines 214-222: one v5 list entry in the normalized shape.
NormalizeListItem(r) ==
    [id |-> r.id, title |-> r.name, slug |-> r.slug, visibility |-> VisibilityOf(r),
     locked |-> r.isLocked, createdAt |-> r.createdAt, updatedAt |-> r.updatedAt]

listResumes(m) ==
    Then(request(m, "list", "", "GET", EmptyObj),
         LAMBDA r : {IF "list" \in DOMAIN r.val
                     THEN Ret(r.m, [list |-> MapSeq(r.val.list, NormalizeListItem)])
                     ELSE Throw(r.m, TypeErrorNotFunction)})

\* getResume(), lines 231-241: a v5 resume in the normalized shape.
NormalizeResume(v5) ==
    Spread(Spread(Spread(Spread(Spread(Pick(v5, "id", "id"), Pick(v5, "name", "title")),
                                Pick(v5, "slug", "slug")), Pick(v5, "data", "data")),
                  Pick(v5, "isLocked", "locked")),
           [visibility |-> VisibilityOf(v5), userId |-> "", createdAt |-> "", updatedAt |-> ""])

getResume(m, id) ==
    Then(request(m, "resume", id, "GET", EmptyObj),
         LAMBDA r : {Ret(r.m, NormalizeResume(IF "resume" \in DOMAIN r.val
                                              THEN r.val.resume ELSE EmptyObj))})

\* createResume(), lines 246-251
CreateDtoV5(dto) ==
    [name |-> dto.title, slug |-> dto.slug, tags |-> <<>>, withSampleData |-> FALSE]

createResume(m, dto) ==
    Then(request(m, "create", "", "POST", CreateDtoV5(dto)),
         LAMBDA r : getResume(r.m, IF "str" \in DOMAIN r.val THEN r.val.str
                                        ELSE IF "text" \in DOMAIN r.val THEN r.val.text
                                        ELSE "[object Object]"))

\* updateResume(), lines 262-266
UpdateDtoV5(dto) ==
    Spread(Spread(Spread(Pick(dto, "title", "name"), Pick(dto, "slug", "slug")),
                  Pick(dto, "data", "data")),
           IF "visibility" \in DOMAIN dto
           THEN [isPublic |-> dto.visibility = "public"] ELSE EmptyObj)

updateResume(m, id, dto) ==
    Then(request(m, "resume", id, "PUT", UpdateDtoV5(dto)),
         LAMBDA r : getResume(r.m, id))

deleteResume(m, id) ==
    Then(request(m, "resume", id, "DELETE", EmptyObj),
         LAMBDA r : {Ret(r.m, UndefinedVal)})

lockResume(m, id, locked) ==
    Then(request(m, "lock", id, "PUT", [isLocked |-> locked]),
         LAMBDA r : getResume(r.m, id))

\* o[k] for an object-valued key, {} when it is undefined (as a spread sees it).
Part(o, k) == IF k \in DOMAIN o THEN o[k] ELSE EmptyObj

\* A merge that keeps nothing of the fetched data.
MergeDataOnly(rd, data) == data

\* updateResumeData(), lines 296-301
MergeData(rd, data) ==
    Spread(Without(Spread(rd, data), {"basics", "sections"}),
           Spread(IF "basics" \in DOMAIN data
                  THEN [basics |-> Spread(Part(rd, "basics"), data.basics)]
                  ELSE Pick(rd, "basics", "basics"),
                  IF "sections" \in DOMAIN data
                  THEN [sections |-> Spread(Part(rd, "sections"), data.sections)]
                  ELSE Pick(rd, "sections", "sections")))

\* An updateResumeData that writes what it was given when its fetch fails.
updateResumeDataUnfetched(m, id, data) ==
    UNION {IF ~r.ok
           THEN updateResume(r.m, id, [data |-> data])
           ELSE IF "data" \notin DOMAIN r.val
           THEN {Throw(r.m, TypeErrorUndefined)}
           ELSE updateResume(r.m, id, [data |-> MergeData(r.val.data, data)])
           : r \in getResume(m, id)}

updateResumeData(m, id, data) ==
    Then(getResume(m, id),
         LAMBDA r : IF "data" \notin DOMAIN r.val
                    THEN {Throw(r.m, TypeErrorUndefined)}
                    ELSE updateResume(r.m, id, [data |-> MergeData(r.val.data, data)]))

\* An updateSection that hands on the one section and not the fetched ones.
updateSectionOnly(m, resumeId, sectionName, sectionData) ==
    Then(getResume(m, resumeId),
         LAMBDA r : IF "data" \notin DOMAIN r.val
                    THEN {Throw(r.m, TypeErrorUndefined)}
                    ELSE updateResumeData(r.m, resumeId,
                           [sections |-> [k \in {sectionName} |-> sectionData]]))

updateSection(m, resumeId, sectionName, sectionData) ==
    Then(getResume(m, resumeId),
         LAMBDA r : IF "data" \notin DOMAIN r.val
                    THEN {Throw(r.m, TypeErrorUndefined)}
                    ELSE updateResumeData(r.m, resumeId,
                           [sections |-> Spread(Part(r.val.data, "sections"),
                                                [k \in {sectionName} |-> sectionData])]))

\* The item-level methods: fetch, rebuild the section's items, updateSection.
WithItems(m, resumeId, sectionName, NewItems(_)) ==
    Then(getResume(m, resumeId),
         LAMBDA r : IF ~(/\ "data" \in DOMAIN r.val
                          /\ "sections" \in DOMAIN r.val.data
                          /\ sectionName \in DOMAIN r.val.data.sections
                          /\ "items" \in DOMAIN r.val.data.sections[sectionName])
                    THEN {Throw(r.m, TypeErrorUndefined)}
                    ELSE LET section == r.val.data.sections[sectionName]
                         IN updateSection(r.m, resumeId, sectionName,
                                          Spread(section, [items |-> NewItems(section.items)])))

addSectionItem(m, resumeId, sectionName, item) ==
    WithItems(m, resumeId, sectionName, LAMBDA items : Append(items, item))

\* An updateSectionItem that puts the update in the place of the item.
updateSectionItemReplacing(m, resumeId, sectionName, itemId, updates) ==
    WithItems(m, resumeId, sectionName,
              LAMBDA items : MapSeq(items, LAMBDA it : IF it.id = itemId THEN updates ELSE it))

updateSectionItem(m, resumeId, sectionName, itemId, updates) ==
    WithItems(m, resumeId, sectionName,
              LAMBDA items : MapSeq(items, LAMBDA it : IF it.id = itemId
                                                       THEN Spread(it, updates) ELSE it))

\* A removeSectionItem that removes the first item of that id only.
removeSectionItemFirst(m, resumeId, sectionName, itemId) ==
    WithItems(m, resumeId, sectionName,
              LAMBDA items :
                  IF \E p \in DOMAIN items : items[p].id = itemId
                  THEN LET p == CHOOSE q \in DOMAIN items :
                                    /\ items[q].id = itemId
                                    /\ \A k \in 1..(q - 1) : items[k].id # itemId
                       IN SubSeq(items, 1, p - 1) \o SubSeq(items, p + 1, Len(items))
                  ELSE items)

removeSectionItem(m, resumeId, sectionName, itemId) ==
    WithItems(m, resumeId, sectionName,
              LAMBDA items : FilterSeq(items, LAMBDA it : it.id # itemId))

updateBasics(m, resumeId, basics) ==
    Then(getResume(m, resumeId),
         LAMBDA r : IF "data" \notin DOMAIN r.val
                    THEN {Throw(r.m, TypeErrorUndefined)}
                    ELSE updateResumeData(r.m, resumeId,
                           [basics |-> Spread(Part(r.val.data, "basics"), basics)]))

getResumeSchema(m) == request(m, "schema", "", "GET", EmptyObj)

printResume(m, id) ==
    LET headers == [NoHeaders EXCEPT !.authorization = m.cl.accessToken]
        req == Req(m.cl.baseUrl, "print", id, "GET", headers, EmptyObj)
    IN Then(fetch(m, req),
            LAMBDA f : {IF ~IsOk(f.val)
                        THEN Throw(f.m, [name |-> "Error", message |-> "Print failed",
                                         status |-> f.val.status])
                        ELSE Ret(f.m, [arrayBuffer |-> TRUE])})

\* healthCheck(), lines 402-404: the fallback to the instance's root.
HealthFallback(m) ==
    LET req == Req(m.cl.baseUrl, "root", "", "GET", NoHeaders, EmptyObj)
    IN Then(fetch(m, req),
            LAMBDA f : {Ret(f.m, [status |-> IF IsOk(f.val) THEN "healthy" ELSE "unhealthy"])})

healthCheck(m) ==
    UNION {IF r.ok THEN {r} ELSE HealthFallback(r.m)
           : r \in request(m, "health", "", "GET", EmptyObj)}

-----------------------------------------------------------------------------
(* The tool handlers (index.ts).  A handler resolves to a response         *)
(* [content, isError]; content is the text of its one content entry:       *)
(* [isString |-> TRUE, prefix, ...] for a string built from a template or  *)
(* by JSON.stringify, and [isString |-> FALSE] when JSON.stringify         *)
(* returned undefined.  The arguments a are the record the schema passes   *)
(* on: an omitted optional argument is not in its domain.                  *)

\* a[k], or the schema's default d.
Arg(a, k, d) == IF k \in DOMAIN a THEN a[k] ELSE d

\* s || ""
OrEmpty(s) == IF Truthy(s) THEN s ELSE ""

Message(prefix, parts) == [isString |-> TRUE, prefix |-> prefix, parts |-> parts]

\* JSON.stringify(v, null, 2): undefined for the undefined value.
JsonStringify(v) ==
    IF v = UndefinedVal
    THEN [isString |-> FALSE]
    ELSE [isString |-> TRUE, prefix |-> "", jsonOf |-> v]

\* A response without the isError key, and one with it.
Success(text) == [content |-> text]

Failure(text) == [content |-> text, isError |-> TRUE]

\* try { ... } catch (error) { return { ..., isError: true } }
Catch(prefix, outs) ==
    {IF o.ok THEN o ELSE Ret(o.m, Failure([isString |-> TRUE, prefix |-> prefix, error |-> o.err])) : o \in outs}

\* An authenticate that signs in whenever it has an identifier and a
\* password, and looks at the API key only when it has not.
authenticateSigningInFirst(m, a) ==
    Catch("Authentication failed",
          IF Truthy(Arg(a, "identifier", Undefined)) /\ Truthy(Arg(a, "password", Undefined))
          THEN Then(login(m, a.identifier, a.password),
                    LAMBDA r : {IF "user" \in DOMAIN r.val
                                THEN Ret(r.m, Success(Message("Successfully authenticated as",
                                                              <<r.val.user.name, r.val.user.email>>)))
                                ELSE Throw(r.m, TypeErrorUndefined)})
          ELSE IF Truthy(Arg(a, "api_key", Undefined))
          THEN {Ret([m EXCEPT !.cl = setApiKey(@, a.api_key)],
                    Success(Message("Successfully authenticated with API key", <<>>)))}
          ELSE {Ret(m, Failure(Message(
                    "Please provide either an api_key or both identifier and password", <<>>)))})

authenticate(m, a) ==
    Catch("Authentication failed",
          IF Truthy(Arg(a, "api_key", Undefined))
          THEN {Ret([m EXCEPT !.cl = setApiKey(@, a.api_key)],
                    Success(Message("Successfully authenticated with API key", <<>>)))}
          ELSE IF Truthy(Arg(a, "identifier", Undefined)) /\ Truthy(Arg(a, "password", Undefined))
          THEN Then(login(m, a.identifier, a.password),
                    LAMBDA r : {IF "user" \in DOMAIN r.val
                                THEN Ret(r.m, Success(Message("Successfully authenticated as",
                                                              <<r.val.user.name, r.val.user.email>>)))
                                ELSE Throw(r.m, TypeErrorUndefined)})
          ELSE {Ret(m, Failure(Message(
                    "Please provide either an api_key or both identifier and password", <<>>)))})

\* A set_base_url that hands the API key on to the new client.
set_base_urlKeepingKey(m, a) ==
    {Ret([m EXCEPT !.cl = [createApiClient(a.url) EXCEPT !.apiKey = m.cl.apiKey]],
         Success(Message("Base URL changed to", <<a.url>>)))}

set_base_url(m, a) ==
    {Ret([m EXCEPT !.cl = createApiClient(a.url)],
         Success(Message("Base URL changed to", <<a.url>>)))}

check_connection(m) ==
    Catch("Connection failed",
          Then(healthCheck(m),
               LAMBDA r : {Ret(r.m, Success(Message("Connection successful. Server status",
                                                    <<Arg(r.val, "status", "undefined")>>)))}))

get_current_user(m) ==
    Catch("Failed to get user",
          Then(getCurrentUser(m), LAMBDA r : {Ret(r.m, Success(JsonStringify(r.val)))}))

list_resumes(m) ==
    Catch("Failed to list resumes",
          Then(listResumes(m),
               LAMBDA r : {IF Len(r.val.list) = 0
                           THEN Ret(r.m, Success(Message(
                                    "No resumes found. Create one using the create_resume tool.", <<>>)))
                           ELSE Ret(r.m, Success(JsonStringify(
                                    [list |-> MapSeq(r.val.list,
                                        LAMBDA x : [id |-> x.id, title |-> x.title,
                                                    slug |-> x.slug,
                                                    visibility |-> x.visibility,
                                                    locked |-> x.locked,
                                                    updatedAt |-> x.updatedAt])])))}))

get_resume(m, a) ==
    Catch("Failed to get resume",
          Then(getResume(m, a.resume_id), LAMBDA r : {Ret(r.m, Success(JsonStringify(r.val)))}))

\* get_resume_section, lines 284-289: the value of data, or a TypeError.
SectionOf(m, resume, section) ==
    IF "data" \notin DOMAIN resume
    THEN Throw(m, TypeErrorUndefined)
    ELSE IF section = "basics"
    THEN Ret(m, IF "basics" \in DOMAIN resume.data THEN resume.data.basics ELSE UndefinedVal)
    ELSE IF "sections" \notin DOMAIN resume.data
    THEN Throw(m, TypeErrorUndefined)
    ELSE Ret(m, IF section \in DOMAIN resume.data.sections
                THEN resume.data.sections[section] ELSE UndefinedVal)

get_resume_section(m, a) ==
    Catch("Failed to get section",
          Then(Then(getResume(m, a.resume_id), LAMBDA r : {SectionOf(r.m, r.val, a.section)}),
               LAMBDA d : {Ret(d.m, Success(JsonStringify(d.val)))}))

\* The characters of the titles the model uses, and the strings they spell.
Spelling ==
    [s \in {"T", "t", "My  CV", "my-cv", "my--cv"} |->
        CASE s = "T" -> <<"T">>
          [] s = "t" -> <<"t">>
          [] s = "My  CV" -> <<"M", "y", " ", " ", "C", "V">>
          [] s = "my-cv" -> <<"m", "y", "-", "c", "v">>
          [] OTHER -> <<"m", "y", "-", "-", "c", "v">>]

\* c.toLowerCase()
ToLowerCase(c) ==
    CASE c = "T" -> "t" [] c = "M" -> "m" [] c = "C" -> "c" [] c = "V" -> "v" [] OTHER -> c

\* A replace that puts a hyphen for every whitespace character.
HyphenateEach(chars) == MapSeq(chars, LAMBDA c : IF c = " " THEN "-" ELSE c)

\* chars.replace(/\s+/g, "-"): every run of whitespace becomes one hyphen.
RECURSIVE Hyphenate(_)
Hyphenate(chars) ==
    IF chars = <<>> THEN <<>>
    ELSE IF Head(chars) = " "
    THEN IF Len(chars) > 1 /\ chars[2] = " "
         THEN Hyphenate(Tail(chars))
         ELSE <<"-">> \o Hyphenate(Tail(chars))
    ELSE <<Head(chars)>> \o Hyphenate(Tail(chars))

\* title.toLowerCase().replace(/\s+/g, "-")
Slugify(title) ==
    LET chars == Hyphenate(MapSeq(Spelling[title], ToLowerCase))
    IN CHOOSE s \in DOMAIN Spelling : Spelling[s] = chars

create_resume(m, a) ==
    Catch("Failed to create resume",
          Then(createResume(m, [title |-> a.title,
                                slug |-> IF Truthy(Arg(a, "slug", Undefined))
                                         THEN a.slug ELSE Slugify(a.title),
                                visibility |-> Arg(a, "visibility", "private")]),
               LAMBDA r : {Ret(r.m, Success(Message("Resume created successfully!",
                                <<Arg(r.val, "id", "undefined"), Arg(r.val, "title", "undefined"),
                                  Arg(r.val, "slug", "undefined")>>)))}))

\* An update_resume_basics that builds the URL from what it was given alone.
WithUrlAsGiven(m, a, updates) ==
    IF "url_label" \in DOMAIN a \/ "url_href" \in DOMAIN a
    THEN {Ret(m, Spread(updates, [url |-> [label |-> Arg(a, "url_label", ""),
                                          href |-> Arg(a, "url_href", "")]]))}
    ELSE {Ret(m, updates)}

\* update_resume_basics, lines 377-383
WithUrl(m, a, updates) ==
    IF "url_label" \in DOMAIN a \/ "url_href" \in DOMAIN a
    THEN Then(getResume(m, a.resume_id),
              LAMBDA r : {IF /\ "data" \in DOMAIN r.val
                             /\ "basics" \in DOMAIN r.val.data
                             /\ "url" \in DOMAIN r.val.data.basics
                          THEN Ret(r.m, Spread(updates,
                                 [url |-> [label |-> Arg(a, "url_label", r.val.data.basics.url.label),
                                           href |-> Arg(a, "url_href", r.val.data.basics.url.href)]]))
                          ELSE Throw(r.m, TypeErrorUndefined)})
    ELSE {Ret(m, updates)}

update_resume_basics(m, a) ==
    Catch("Failed to update basics",
          Then(Then(WithUrl(m, a, [k \in (DOMAIN a) \cap {"name", "headline", "email", "phone",
                                                            "location"} |-> a[k]]),
                    LAMBDA u : updateBasics(u.m, a.resume_id, u.val)),
               LAMBDA r : {Ret(r.m, Success(Message("Basic information updated successfully.", <<>>)))}))

update_summary(m, a) ==
    Catch("Failed to update summary",
          Then(Then(getResume(m, a.resume_id),
                    LAMBDA r : IF "data" \notin DOMAIN r.val \/ "sections" \notin DOMAIN Part(r.val, "data")
                               THEN {Throw(r.m, TypeErrorUndefined)}
                               ELSE updateSection(r.m, a.resume_id, "summary",
                                        Spread(Part(r.val.data.sections, "summary"),
                                               [content |-> a.content]))),
               LAMBDA r : {Ret(r.m, Success(Message("Summary updated successfully.", <<>>)))}))

\* { label: "", url: url || "" }
Website(a) == [label |-> "", url |-> OrEmpty(Arg(a, "url", Undefined))]

\* add_experience, lines 461-473
ExperienceItem(id, a) ==
    [id |-> id, hidden |-> FALSE, company |-> a.company, position |-> a.position,
     location |-> OrEmpty(Arg(a, "location", "")), period |-> OrEmpty(Arg(a, "date", "")),
     description |-> OrEmpty(Arg(a, "summary", "")), website |-> Website(a)]

\* add_education, lines 513-527
EducationItem(id, a) ==
    [id |-> id, hidden |-> FALSE, school |-> a.institution, degree |-> a.study_type,
     area |-> a.area, grade |-> OrEmpty(Arg(a, "score", "")), location |-> "",
     period |-> OrEmpty(Arg(a, "date", "")), description |-> OrEmpty(Arg(a, "summary", "")),
     website |-> Website(a)]

\* add_skill, lines 564-572
SkillItem(id, a) ==
    [id |-> id, hidden |-> FALSE, icon |-> "", name |-> a.name,
     proficiency |-> OrEmpty(Arg(a, "description", "")), level |-> Arg(a, "level", 3),
     keywords |-> Arg(a, "keywords", <<>>)]

\* add_project, lines 611-621
ProjectItem(id, a) ==
    [id |-> id, hidden |-> FALSE, name |-> a.name, period |-> OrEmpty(Arg(a, "date", "")),
     description |-> IF Truthy(Arg(a, "summary", "")) THEN a.summary
                     ELSE OrEmpty(Arg(a, "description", "")),
     website |-> Website(a)]

\* The add_* tools: id is what generateId() returned.
AddTool(m, a, section, item, prefix, done) ==
    Catch(prefix,
          Then(addSectionItem(m, a.resume_id, section, item),
               LAMBDA r : {Ret(r.m, Success(done))}))

add_experience(m, a, id) ==
    AddTool(m, a, "experience", ExperienceItem(id, a), "Failed to add experience",
            Message("Experience added", <<a.position, a.company>>))

add_education(m, a, id) ==
    AddTool(m, a, "education", EducationItem(id, a), "Failed to add education",
            Message("Education added", <<a.study_type, a.area, a.institution>>))

add_skill(m, a, id) ==
    AddTool(m, a, "skills", SkillItem(id, a), "Failed to add skill",
            Message("Skill added", <<a.name>>))

add_project(m, a, id) ==
    AddTool(m, a, "projects", ProjectItem(id, a), "Failed to add project",
            Message("Project added", <<a.name>>))

\* An update_section_item whose parser accepts any text.
update_section_itemLenient(m, a) ==
    Catch("Failed to update item",
          Then(updateSectionItem(m, a.resume_id, a.section, a.item_id, a.updates.parsed),
               LAMBDA r : {Ret(r.m, Success(Message("Item updated successfully.",
                                                    <<a.item_id, a.section>>)))}))

update_section_item(m, a) ==
    Catch("Failed to update item",
          Then(Then({IF a.updates.wellFormed THEN Ret(m, a.updates.parsed)
                     ELSE Throw(m, SyntaxErrorJson)},
                    LAMBDA u : updateSectionItem(u.m, a.resume_id, a.section, a.item_id, u.val)),
               LAMBDA r : {Ret(r.m, Success(Message("Item updated successfully.",
                                                    <<a.item_id, a.section>>)))}))

remove_section_item(m, a) ==
    Catch("Failed to remove item",
          Then(removeSectionItem(m, a.resume_id, a.section, a.item_id),
               LAMBDA r : {Ret(r.m, Success(Message("Item removed from", <<a.section>>)))}))

\* A section that keeps nothing of the fetched one.
ToggledSectionBare(sectionData, visible) == [visible |-> visible]

\* { ...sectionData, visible }
ToggledSection(sectionData, visible) == Spread(sectionData, [visible |-> visible])

toggle_section_visibility(m, a) ==
    Catch("Failed to toggle visibility",
          Then(Then(getResume(m, a.resume_id),
                    LAMBDA r : IF "data" \notin DOMAIN r.val \/ "sections" \notin DOMAIN Part(r.val, "data")
                               THEN {Throw(r.m, TypeErrorUndefined)}
                               ELSE updateSection(r.m, a.resume_id, a.section,
                                        ToggledSection(Part(r.val.data.sections, a.section),
                                                       a.visible))),
               LAMBDA r : {Ret(r.m, Success(Message("Section is now",
                                <<a.section, IF a.visible THEN "visible" ELSE "hidden">>)))}))

\* A delete_resume that does not look at confirm.
delete_resumeUnconfirmed(m, a) ==
    Catch("Failed to delete resume",
          Then(deleteResume(m, a.resume_id),
               LAMBDA r : {Ret(r.m, Success(Message("Resume deleted successfully.", <<>>)))}))

delete_resume(m, a) ==
    IF ~a.confirm
    THEN {Ret(m, Success(Message("Deletion cancelled. Set confirm to true to delete.", <<>>)))}
    ELSE Catch("Failed to delete resume",
               Then(deleteResume(m, a.resume_id),
                    LAMBDA r : {Ret(r.m, Success(Message("Resume deleted successfully.", <<>>)))}))

\* An export_resume_json that exports the data of the resume alone.
export_resume_jsonData(m, a) ==
    Catch("Failed to export",
          Then(getResume(m, a.resume_id),
               LAMBDA r : {Ret(r.m, Success(JsonStringify(Part(r.val, "data"))))}))

export_resume_json(m, a) ==
    Catch("Failed to export",
          Then(getResume(m, a.resume_id), LAMBDA r : {Ret(r.m, Success(JsonStringify(r.val)))}))

update_resume_visibility(m, a) ==
    Catch("Failed to update visibility",
          Then(updateResume(m, a.resume_id, [visibility |-> a.visibility]),
               LAMBDA r : {Ret(r.m, Success(Message("Resume visibility set to", <<a.visibility>>)))}))

-----------------------------------------------------------------------------
(* The state and the steps shared by the specifications.                   *)
(*   apiClient  the client object the process holds (index.ts, line 18)    *)
(*   upstream   the resumes the upstream stores, by id                     *)
(*   answers    the ways the upstream may answer a request in this run     *)
(*   wire       the HTTP exchanges of the last operation, in order         *)
(*   call       the last operation, its arguments, and in was the upstream *)
(*              store it started from (for set_base_url, in had the client *)
(*              object it replaced)                                        *)
(*   result     what the last operation returned or threw                  *)
(*   process    the process: its environment variables (env), whether it   *)
(*              is launching, running or exited, and its exit code         *)

\* process.env as index.ts reads it: a variable that is not set is undefined.
Environment(baseUrl, apiKey, email, password) ==
    [RXRESUME_BASE_URL |-> baseUrl, RXRESUME_API_KEY |-> apiKey,
     RXRESUME_EMAIL |-> email, RXRESUME_PASSWORD |-> password]

\* index.ts, lines 15-23: the client the module creates when it is loaded.
StartClient(env) ==
    LET BASE_URL == IF Truthy(env.RXRESUME_BASE_URL)
                    THEN env.RXRESUME_BASE_URL ELSE "https://rxresu.me"
        API_KEY == OrEmpty(env.RXRESUME_API_KEY)
    IN IF Truthy(API_KEY)
       THEN setApiKey(createApiClient(BASE_URL), API_KEY)
       ELSE createApiClient(BASE_URL)

\* A running process whose environment has been read and plays no further
\* part (index.ts reads it at lines 15-16 only; the scripts that use the
\* client as a library read it once as well).
Loaded ==
    [env |-> Environment(Undefined, Undefined, Undefined, Undefined),
     status |-> "running", exitCode |-> 0]

\* A main() that exits with status 0 when the transport fails.
mainExitClean(p, connected) ==
    IF connected THEN [p EXCEPT !.status = "running"]
    ELSE [p EXCEPT !.status = "exited", !.exitCode = 0]

\* index.ts, lines 903-912: main() connects the transport; when that
\* rejects, the process exits with status 1.
main(p, connected) ==
    IF connected THEN [p EXCEPT !.status = "running"]
    ELSE [p EXCEPT !.status = "exited", !.exitCode = 1]

\* No operation is in progress: the last one has returned to its caller,
\* and the process is there to take the next.
Idle == call.op = "idle" /\ process.status = "running"

\* The context an operation starts in.
Start == [cl |-> apiClient, up |-> upstream, log |-> <<>>, env |-> answers]

\* One operation runs to completion with one of its outcomes.
Finish(c, o, res) ==
    /\ apiClient' = o.m.cl
    /\ upstream' = o.m.up
    /\ wire' = o.m.log
    /\ call' = Spread(c, [was |-> upstream])
    /\ result' = res
    /\ UNCHANGED <<answers, process>>

\* A client method called directly, as test-api.ts and test-create.ts do.
Client(c, outs) == Idle /\ \E o \in outs : Finish(c, o, IF o.ok THEN [ok |-> TRUE, val |-> o.val]
                                      ELSE [ok |-> FALSE, err |-> o.err])

\* A synchronous setter of the client.
NoResult == [ok |-> TRUE, val |-> UndefinedVal]

Setter(c, cl) == Idle /\ Finish(c, [m |-> [Start EXCEPT !.cl = cl]], NoResult)

\* The caller has its answer: the process is ready for the next operation.
Return ==
    /\ call.op # "idle"
    /\ call' = [op |-> "idle"]
    /\ wire' = <<>>
    /\ result' = NoResult
    /\ UNCHANGED <<apiClient, upstream, answers, process>>

\* The number of items a stored resume holds.
RECURSIVE SumItems(_, _)
SumItems(sections, names) ==
    IF names = {} THEN 0
    ELSE LET n == CHOOSE x \in names : TRUE
         IN (IF "items" \in DOMAIN sections[n] THEN Len(sections[n].items) ELSE 0)
            + SumItems(sections, names \ {n})

ItemCount(up, id) ==
    IF id \in DOMAIN up /\ "sections" \in DOMAIN up[id].data
    THEN SumItems(up[id].data.sections, DOMAIN up[id].data.sections)
    ELSE 0

\* The arguments the operations are called with.
BaseUrls == {"https://a", "https://b/"}

IdArgs == {"r1", "r2"}

ItemIds == {"i1", "i2"}

SectionArgs == {"skills", "awards"}

InitCommon ==
    /\ upstream = [i \in {"r1"} |->
                      [id |-> "r1", name |-> "T", slug |-> "t", isPublic |-> FALSE,
                       isLocked |-> FALSE, data |-> NewData]]
    /\ wire = <<>>
    /\ call = [op |-> "idle"]
    /\ result = NoResult

-----------------------------------------------------------------------------
(* Spec: the MCP server.  The process starts with the client of index.ts,  *)
(* lines 15-23, and the host invokes the registered tools one at a time.   *)

ToolNames ==
    {"authenticate", "set_base_url", "check_connection", "get_current_user",
     "list_resumes", "get_resume", "get_resume_section", "create_resume",
     "update_resume_basics", "update_summary", "add_experience", "add_education",
     "add_skill", "add_project", "update_section_item", "remove_section_item",
     "toggle_section_visibility", "delete_resume", "export_resume_json",
     "update_resume_visibility"}

\* The host invokes a tool handler and gets what it resolves to.
Tool(c, outs) == Client(c, outs)

\* response.isError, as the host reads it.
IsError(response) == "isError" \in DOMAIN response /\ response.isError

TAuthenticate ==
    \E a \in {[api_key |-> "k1"], [identifier |-> "e", password |-> "p"], [identifier |-> "e"],
              [api_key |-> "k1", identifier |-> "e", password |-> "p"],
              [api_key |-> "", identifier |-> "e", password |-> "p"],
              [identifier |-> "", password |-> "p"]} :
        Tool([op |-> "authenticate", args |-> a], authenticate(Start, a))

TSetBaseUrl ==
    \E url \in BaseUrls :
        Tool([op |-> "set_base_url", args |-> [url |-> url], had |-> apiClient],
             set_base_url(Start, [url |-> url]))

TCheckConnection == Tool([op |-> "check_connection"], check_connection(Start))

TGetCurrentUser == Tool([op |-> "get_current_user"], get_current_user(Start))

TListResumes == Tool([op |-> "list_resumes"], list_resumes(Start))

TGetResume ==
    \E id \in IdArgs :
        Tool([op |-> "get_resume", args |-> [resume_id |-> id]],
             get_resume(Start, [resume_id |-> id]))

TGetResumeSection ==
    \E n \in {"basics"} \cup SectionArgs :
        Tool([op |-> "get_resume_section", args |-> [resume_id |-> "r1", section |-> n]],
             get_resume_section(Start, [resume_id |-> "r1", section |-> n]))

TCreateResume ==
    \E a \in {[title |-> "T", visibility |-> "public"]} :
        Tool([op |-> "create_resume", args |-> a], create_resume(Start, a))

TUpdateResumeBasics ==
    \E a \in {[resume_id |-> "r1", name |-> ""], [resume_id |-> "r1", url_label |-> ""]} :
        Tool([op |-> "update_resume_basics", args |-> a], update_resume_basics(Start, a))

TUpdateSummary ==
    \E a \in {[resume_id |-> "r1", content |-> "c"]} :
        Tool([op |-> "update_summary", args |-> a], update_summary(Start, a))

\* The arguments of the add_* tools: the required ones alone, and all of them.
ExperienceArgs ==
    {[resume_id |-> "r1", company |-> "co", position |-> "po"],
     [resume_id |-> "r1", company |-> "co", position |-> "po", location |-> "lo",
      date |-> "da", summary |-> "su", url |-> "https://u"]}

EducationArgs ==
    {[resume_id |-> "r1", institution |-> "in", study_type |-> "st", area |-> "ar"],
     [resume_id |-> "r1", institution |-> "in", study_type |-> "st", area |-> "ar",
      score |-> "sc", date |-> "da", summary |-> "su", url |-> "https://u"]}

SkillArgs ==
    {[resume_id |-> "r1", name |-> "na"],
     [resume_id |-> "r1", name |-> "na", description |-> "de", level |-> 5,
      keywords |-> <<"kw">>]}

ProjectArgs ==
    {[resume_id |-> "r1", name |-> "na"],
     [resume_id |-> "r1", name |-> "na", description |-> "de", date |-> "da",
      summary |-> "su", keywords |-> <<"kw">>, url |-> "https://u"]}

\* The record of args with the fewest arguments.
Fewest(args) == CHOOSE a \in args : \A b \in args : Cardinality(DOMAIN a) <= Cardinality(DOMAIN b)

TAddExperience ==
    \E id \in ItemIds :
        /\ ItemCount(upstream, "r1") < MaxToolItems
        /\ Tool([op |-> "add_experience", args |-> Fewest(ExperienceArgs), id |-> id],
                add_experience(Start, Fewest(ExperienceArgs), id))

TAddEducation ==
    \E id \in ItemIds :
        /\ ItemCount(upstream, "r1") < MaxToolItems
        /\ Tool([op |-> "add_education", args |-> Fewest(EducationArgs), id |-> id],
                add_education(Start, Fewest(EducationArgs), id))

TAddSkill ==
    \E id \in ItemIds :
        /\ ItemCount(upstream, "r1") < MaxToolItems
        /\ Tool([op |-> "add_skill", args |-> Fewest(SkillArgs), id |-> id],
                add_skill(Start, Fewest(SkillArgs), id))

TAddProject ==
    \E id \in ItemIds :
        /\ ItemCount(upstream, "r1") < MaxToolItems
        /\ Tool([op |-> "add_project", args |-> Fewest(ProjectArgs), id |-> id],
                add_project(Start, Fewest(ProjectArgs), id))

TUpdateSectionItem ==
    \E u \in {[wellFormed |-> FALSE, parsed |-> EmptyObj],
              [wellFormed |-> TRUE, parsed |-> [hidden |-> TRUE]]} :
        LET a == [resume_id |-> "r1", section |-> "skills", item_id |-> "i1", updates |-> u]
        IN Tool([op |-> "update_section_item", args |-> a], update_section_item(Start, a))

TRemoveSectionItem ==
    \E a \in {[resume_id |-> "r1", section |-> "skills", item_id |-> "i1"]} :
        Tool([op |-> "remove_section_item", args |-> a], remove_section_item(Start, a))

TToggleSectionVisibility ==
    \E a \in {[resume_id |-> "r1", section |-> "skills", visible |-> TRUE]} :
        Tool([op |-> "toggle_section_visibility", args |-> a],
             toggle_section_visibility(Start, a))

TDeleteResume ==
    \E confirm \in BOOLEAN :
        LET a == [resume_id |-> "r1", confirm |-> confirm]
        IN Tool([op |-> "delete_resume", args |-> a], delete_resume(Start, a))

TExportResumeJson ==
    \E id \in IdArgs :
        Tool([op |-> "export_resume_json", args |-> [resume_id |-> id]],
             export_resume_json(Start, [resume_id |-> id]))

TUpdateResumeVisibility ==
    \E a \in {[resume_id |-> "r1", visibility |-> "private"]} :
        Tool([op |-> "update_resume_visibility", args |-> a],
             update_resume_visibility(Start, a))

\* index.ts, lines 15-23: the client of BASE_URL, with API_KEY when it is set.
Init ==
    /\ process = Loaded
    /\ apiClient \in {StartClient(Environment("https://a", key, Undefined, Undefined))
                      : key \in {Undefined, "k0"}}
    /\ answers = Outcomes
    /\ InitCommon

Next ==
    \/ TAuthenticate
    \/ TSetBaseUrl
    \/ TCheckConnection
    \/ TGetCurrentUser
    \/ TListResumes
    \/ TGetResume
    \/ TGetResumeSection
    \/ TCreateResume
    \/ TUpdateResumeBasics
    \/ TUpdateSummary
    \/ TAddExperience
    \/ TAddEducation
    \/ TAddSkill
    \/ TAddProject
    \/ TUpdateSectionItem
    \/ TRemoveSectionItem
    \/ TToggleSectionVisibility
    \/ TDeleteResume
    \/ TExportResumeJson
    \/ TUpdateResumeVisibility
    \/ Return

Spec == Init /\ [][Next]_vars

-----------------------------------------------------------------------------
(* SpecClient: the client used as a library.                               *)

CSetApiKey ==
    Setter([op |-> "setApiKey"], setApiKey(apiClient, "k1"))

CSetTokens ==
    Setter([op |-> "setTokens"],
           setTokens(apiClient, [accessToken |-> "a0", refreshToken |-> "f0"]))

CCreateApiClient ==
    \E url \in BaseUrls : Setter([op |-> "createApiClient"], createApiClient(url))

CLogin == Client([op |-> "login"], login(Start, "e", "p"))

CLoginWithTokens == Client([op |-> "loginWithTokens"], loginWithTokens(Start, "a0", "f0"))

CLogout == Client([op |-> "logout"], logout(Start))

CGetCurrentUser == Client([op |-> "getCurrentUser"], getCurrentUser(Start))

CListResumes == Client([op |-> "listResumes"], listResumes(Start))

CGetResume == \E id \in IdArgs : Client([op |-> "getResume", id |-> id], getResume(Start, id))

CCreateResume ==
    \E dto \in {[title |-> "T", slug |-> "t"],
                [title |-> "T", slug |-> "t", visibility |-> "public"],
                [title |-> "T", slug |-> "t", visibility |-> "private"]} :
        Client([op |-> "createResume", dto |-> dto], createResume(Start, dto))

CUpdateResume ==
    \E id \in IdArgs :
        \E dto \in {[visibility |-> "public"], [visibility |-> "private"], [title |-> "U"]} :
            Client([op |-> "updateResume", id |-> id, dto |-> dto], updateResume(Start, id, dto))

CDeleteResume ==
    \E id \in IdArgs : Client([op |-> "deleteResume", id |-> id], deleteResume(Start, id))

CLockResume ==
    \E id \in IdArgs :
        Client([op |-> "lockResume", id |-> id], lockResume(Start, id, TRUE))

CUpdateResumeData ==
    Client([op |-> "updateResumeData", id |-> "r1"],
           updateResumeData(Start, "r1", [metadata |-> [template |-> "azurill"]]))

CUpdateSection ==
    \E n \in SectionArgs :
        Client([op |-> "updateSection", id |-> "r1", section |-> n],
               updateSection(Start, "r1", n, [NewSection(n) EXCEPT !.name = "renamed"]))

CUpdateBasics ==
    Client([op |-> "updateBasics", id |-> "r1", basics |-> [name |-> "N"]],
           updateBasics(Start, "r1", [name |-> "N"]))

CGetResumeSchema == Client([op |-> "getResumeSchema"], getResumeSchema(Start))

CPrintResume == Client([op |-> "printResume", id |-> "r1"], printResume(Start, "r1"))

CHealthCheck == Client([op |-> "healthCheck"], healthCheck(Start))

InitClient ==
    /\ process = Loaded
    /\ apiClient \in {createApiClient(url) : url \in BaseUrls}
    /\ answers = Outcomes
    /\ InitCommon

NextClient ==
    \/ CSetApiKey
    \/ CSetTokens
    \/ CCreateApiClient
    \/ CLogin
    \/ CLoginWithTokens
    \/ CLogout
    \/ CGetCurrentUser
    \/ CListResumes
    \/ CGetResume
    \/ CCreateResume
    \/ CUpdateResume
    \/ CDeleteResume
    \/ CLockResume
    \/ CUpdateResumeData
    \/ CGetResumeSchema
    \/ CPrintResume
    \/ CHealthCheck
    \/ Return

SpecClient == InitClient /\ [][NextClient]_vars

-----------------------------------------------------------------------------
(* SpecAdd and SpecItems: the section items of one resume, written by a    *)
(* client that holds an API key, against an upstream that answers or       *)
(* refuses.                                                                *)

InitData ==
    /\ process = Loaded
    /\ apiClient = setApiKey(createApiClient("https://a"), "k1")
    /\ answers = {"ok", "s500"}
    /\ InitCommon

\* The items of a section of resume r1 in store up, <<>> when it has none.
ItemsOf(up, n) ==
    IF /\ "r1" \in DOMAIN up
       /\ n \in DOMAIN up["r1"].data.sections
       /\ "items" \in DOMAIN up["r1"].data.sections[n]
    THEN up["r1"].data.sections[n].items
    ELSE <<>>

AAddExperience ==
    \E a \in ExperienceArgs, id \in ItemIds :
        /\ ItemCount(upstream, "r1") < MaxItems
        /\ Tool([op |-> "add_experience", args |-> a, id |-> id], add_experience(Start, a, id))

AAddEducation ==
    \E a \in EducationArgs, id \in ItemIds :
        /\ ItemCount(upstream, "r1") < MaxItems
        /\ Tool([op |-> "add_education", args |-> a, id |-> id], add_education(Start, a, id))

AAddSkill ==
    \E a \in SkillArgs, id \in ItemIds :
        /\ ItemCount(upstream, "r1") < MaxItems
        /\ Tool([op |-> "add_skill", args |-> a, id |-> id], add_skill(Start, a, id))

AAddProject ==
    \E a \in ProjectArgs, id \in ItemIds :
        /\ ItemCount(upstream, "r1") < MaxItems
        /\ Tool([op |-> "add_project", args |-> a, id |-> id], add_project(Start, a, id))

AAddSectionItem ==
    \E item \in {[id |-> i, name |-> n] : i \in ItemIds, n \in {"x", "y"}} :
        /\ ItemCount(upstream, "r1") < MaxItems
        /\ Client([op |-> "addSectionItem", id |-> "r1", section |-> "skills", item |-> item],
                  addSectionItem(Start, "r1", "skills", item))

NextAdd ==
    \/ AAddExperience
    \/ AAddEducation
    \/ AAddSkill
    \/ AAddProject
    \/ AAddSectionItem
    \/ Return

SpecAdd == InitData /\ [][NextAdd]_vars

IRemoveSectionItem ==
    \E i \in ItemIds :
        Client([op |-> "removeSectionItem", id |-> "r1", section |-> "skills", itemId |-> i],
               removeSectionItem(Start, "r1", "skills", i))

IRemoveTool ==
    \E i \in ItemIds :
        LET a == [resume_id |-> "r1", section |-> "skills", item_id |-> i]
        IN Tool([op |-> "remove_section_item", args |-> a], remove_section_item(Start, a))

IUpdateSectionItem ==
    \E i \in ItemIds :
        Client([op |-> "updateSectionItem", id |-> "r1", section |-> "skills", itemId |-> i,
                updates |-> [name |-> "y"]],
               updateSectionItem(Start, "r1", "skills", i, [name |-> "y"]))

IToggleSectionVisibility ==
    \E n \in SectionArgs, v \in BOOLEAN :
        LET a == [resume_id |-> "r1", section |-> n, visible |-> v]
        IN Tool([op |-> "toggle_section_visibility", args |-> a],
                toggle_section_visibility(Start, a))

NextItems ==
    \/ AAddSectionItem
    \/ IRemoveSectionItem
    \/ IRemoveTool
    \/ IUpdateSectionItem
    \/ IToggleSectionVisibility
    \/ CUpdateSection
    \/ CUpdateBasics
    \/ Return

SpecItems == InitData /\ [][NextItems]_vars

-----------------------------------------------------------------------------
(* SpecRace: the read-modify-write methods of a client that holds an API   *)
(* key, while another client writes to the same resume between its         *)
(* requests.                                                               *)

InitRace ==
    /\ process = Loaded
    /\ apiClient = setApiKey(createApiClient("https://a"), "k1")
    /\ answers = {"ok"} \cup Writers
    /\ InitCommon

RAddSectionItem ==
    /\ ItemCount(upstream, "r1") < MaxToolItems
    /\ Client([op |-> "addSectionItem", id |-> "r1", section |-> "skills",
                item |-> [id |-> "i1", name |-> "x"]],
               addSectionItem(Start, "r1", "skills", [id |-> "i1", name |-> "x"]))

NextRace ==
    \/ RAddSectionItem
    \/ CUpdateBasics
    \/ Return

SpecRace == InitRace /\ [][NextRace]_vars

-----------------------------------------------------------------------------
(* SpecStart: the MCP server from the moment index.ts is loaded.  The      *)
(* environment may hold a base URL, an API key, an email and a password;   *)
(* the upstream is reachable or not; main() connects the transport, and    *)
(* the tools that do not write the credentials are invoked.                *)

InitStart ==
    /\ \E env \in {Environment("https://a", key, email, password) :
                      key \in {Undefined, "k0"}, email \in {Undefined, "e"},
                      password \in {Undefined, "p"}}
                  \cup {Environment(Undefined, "k0", Undefined, Undefined)} :
           /\ process = [env |-> env, status |-> "launching", exitCode |-> 0]
           /\ apiClient = StartClient(env)
    /\ answers \in {{"ok", "text", "s401"}, {"net"}}
    /\ InitCommon

\* main(): the transport connects, or server.connect rejects.
Launch ==
    /\ process.status = "launching"
    /\ \E connected \in BOOLEAN : process' = main(process, connected)
    /\ UNCHANGED <<apiClient, upstream, answers, wire, call, result>>

\* create_resume with and without a slug, for a title with a run of blanks.
SCreateResume ==
    \E title \in {"T", "My  CV"} :
        \E a \in {[title |-> title], [title |-> title, slug |-> ""],
                  [title |-> title, slug |-> "S 1"],
                  [title |-> title, slug |-> "t", visibility |-> "public"]} :
            Tool([op |-> "create_resume", args |-> a], create_resume(Start, a))

NextStart ==
    \/ Launch
    \/ SCreateResume
    \/ TDeleteResume
    \/ TListResumes
    \/ TGetResume
    \/ TGetCurrentUser
    \/ Return

SpecStart == InitStart /\ [][NextStart]_vars

-----------------------------------------------------------------------------
(* SpecBasics: the basics of one resume, written through the tool and      *)
(* through the client by a client that holds an API key, with no other     *)
(* writer.                                                                 *)

\* update_resume_basics with every choice of the optional arguments name,
\* headline, url_label and url_href, given as a text or as the empty text.
BUpdateResumeBasics ==
    \E ks \in SUBSET {"name", "headline", "url_label", "url_href"} :
        \E all \in {[name |-> "N", headline |-> "H", url_label |-> "L", url_href |-> "https://h"],
                     [name |-> "", headline |-> "H", url_label |-> "", url_href |-> "https://h"]} :
            LET a == Spread([resume_id |-> "r1"], [k \in ks |-> all[k]])
            IN Tool([op |-> "update_resume_basics", args |-> a], update_resume_basics(Start, a))

\* updateBasics as test-create.ts calls it, with some fields or with the URL.
BUpdateBasics ==
    \E b \in {[name |-> "M", email |-> "e@x"],
              [headline |-> "", url |-> [label |-> "", href |-> "https://g"]]} :
        Client([op |-> "updateBasics", id |-> "r1", basics |-> b], updateBasics(Start, "r1", b))

NextBasics ==
    \/ BUpdateResumeBasics
    \/ BUpdateBasics
    \/ Return

SpecBasics == InitData /\ [][NextBasics]_vars

-----------------------------------------------------------------------------
(* Properties of the tools (Spec).                                         *)

\* exchange x did not bring a 2xx answer (status 0: no answer at all).
Failed(x) == x.status < 200 \/ x.status > 299

\* C1: every tool, whatever the upstream answers, resolves to a response
\* whose content is a text string and lets no exception escape; when the
\* last exchange of a client call failed, the response is error-flagged and
\* its text is built from the failure message (check_connection aside, whose
\* client call does not fail on a refused request).
C1_ToolReturnsText ==
    call.op \in ToolNames =>
        /\ result.ok
        /\ result.val.content.isString
        /\ (call.op # "check_connection" /\ wire # <<>> /\ Failed(wire[Len(wire)])
               => IsError(result.val) /\ "error" \in DOMAIN result.val.content)

\* C2: delete_resume with confirm = false issues no HTTP request, leaves the
\* upstream as it is and returns the cancellation message without the error
\* flag; with confirm = true it issues exactly one request, a DELETE of the
\* given resume.
C2_DeleteNeedsConfirm ==
    [][call'.op = "delete_resume" =>
         IF ~call'.args.confirm
         THEN /\ wire' = <<>>
              /\ upstream' = upstream
              /\ result'.ok /\ ~IsError(result'.val)
              /\ result'.val.content.prefix = "Deletion cancelled. Set confirm to true to delete."
         ELSE /\ Len(wire') = 1
              /\ wire'[1].req.method = "DELETE"
              /\ wire'[1].req.ep = "resume"
              /\ wire'[1].req.id = call'.args.resume_id]_vars

\* A confirmed delete_resume has removed the resume.
C2_Witness ==
    /\ call.op = "delete_resume" /\ call.args.confirm
    /\ Len(wire) = 1 /\ wire[1].status = 200
    /\ "r1" \notin DOMAIN upstream
    /\ ~IsError(result.val)

-----------------------------------------------------------------------------
(* Properties of the client (SpecClient).                                  *)

\* C3: once the client holds an API key, every request it issues carries the
\* key in x-api-key and none carries an Authorization bearer header.
C3_ApiKeyOnEveryRequest ==
    Truthy(apiClient.apiKey) =>
        \A i \in DOMAIN wire :
            /\ wire[i].req.xApiKey = apiClient.apiKey
            /\ wire[i].req.authorization = NoHeader

\* Exchange x was made by request() (and not by login, the refresh,
\* printResume or the health fallback).
ByRequest(x) == x.req.ep \notin {"sign-in", "refresh", "print", "root"}

\* w[i] is a request as request() first sends it, not its re-sending.
Original(w, i) == ByRequest(w[i]) /\ (i = 1 \/ w[i - 1].req.ep # "refresh")

\* The error request() builds from exchange x.
ErrorOf(x) ==
    IF x.status = 0 THEN FetchFailed
    ELSE [name |-> "Error", message |-> "API request failed", status |-> x.status,
          statusText |-> x.statusText, body |-> x.bodyText]

\* What follows the 401 at w[i] in an operation c that ended with res.
RefreshedOnce(w, i, c, res) ==
    /\ i < Len(w)
    /\ w[i + 1].req.ep = "refresh"
    /\ LET token == AuthenticationMatch(w[i + 1].setCookie)
       IN IF ~Failed(w[i + 1]) /\ token # Null
          THEN /\ i + 2 <= Len(w)
               /\ w[i + 2].req = [w[i].req EXCEPT !.authorization = token]
               /\ i + 3 <= Len(w) =>
                      /\ w[i + 3].req.ep # "refresh"
                      /\ <<w[i + 3].req.ep, w[i + 3].req.method>> # <<w[i].req.ep, w[i].req.method>>
               /\ Failed(w[i + 2]) /\ c.op # "healthCheck"
                      => i + 2 = Len(w) /\ ~res.ok /\ res.err = ErrorOf(w[i + 2])
          ELSE IF c.op = "healthCheck"
          THEN i + 2 = Len(w) /\ w[i + 2].req.ep = "root"
          ELSE i + 1 = Len(w) /\ ~res.ok /\ res.err = ErrorOf(w[i])

\* C4: a request sent with no API key while a refresh token is held and
\* answered with 401 is followed by exactly one refresh request; after a
\* successful refresh the request is sent again once with the new access
\* token and is not refreshed again, a failing re-sending being the error;
\* after a failed refresh nothing is sent again and the error is the one of
\* the 401.
C4_RefreshOnce ==
    [][\A i \in DOMAIN wire' :
          (/\ wire'[i].status = 401
           /\ Original(wire', i)
           /\ wire'[i].req.xApiKey = NoHeader
           /\ (call'.op = "loginWithTokens" \/ Truthy(apiClient.refreshToken)))
          => RefreshedOnce(wire', i, call', result')]_vars

\* A 401, a successful refresh and a successful re-sending with the new token.
C4_Witness ==
    /\ call.op = "getResume"
    /\ Len(wire) = 3
    /\ wire[1].status = 401
    /\ wire[2].req.ep = "refresh" /\ wire[2].status = 200
    /\ wire[3].req.authorization = "t2" /\ wire[3].status = 200
    /\ result.ok

\* The 401 at w[i] was answered with a refresh.
Refreshed401(w, i) == w[i].status = 401 /\ i < Len(w) /\ w[i + 1].req.ep = "refresh"

\* C5, as stated: the first request of a client operation that fails, other
\* than a 401 that is refreshed, is the last request of the operation, and
\* the operation fails; healthCheck included.
C5_NoSecondRequest ==
    \A i \in DOMAIN wire :
        Failed(wire[i]) /\ ~Refreshed401(wire, i) => i = Len(wire) /\ ~result.ok

\* C5, amended: that holds of every operation but healthCheck; a failed
\* request of healthCheck is followed by exactly one GET of the base URL,
\* which is the last request, and healthCheck fails only when that one gets
\* no answer.
C5_NoSecondRequestButHealth ==
    \A i \in DOMAIN wire :
        Failed(wire[i]) /\ ~Refreshed401(wire, i) =>
            IF call.op # "healthCheck"
            THEN i = Len(wire) /\ ~result.ok
            ELSE IF wire[i].req.ep = "root"
            THEN /\ i = Len(wire)
                 /\ IF wire[i].status = 0
                    THEN ~result.ok
                    ELSE result.ok /\ result.val.status = "unhealthy"
            ELSE /\ i + 1 = Len(wire)
                 /\ wire[i + 1].req.ep = "root"
                 /\ wire[i + 1].req.method = "GET"

\* healthCheck has fallen back to the base URL after a refused request.
C5_Witness ==
    /\ call.op = "healthCheck"
    /\ Len(wire) = 2
    /\ wire[1].req.ep = "health" /\ wire[1].status = 500
    /\ wire[2].req.ep = "root" /\ wire[2].status = 200
    /\ result.ok /\ result.val.status = "healthy"

\* The final exchange of an operation: the last one, or the 401 before it
\* when the last one is a refresh.
FinalExchange(w) == IF w[Len(w)].req.ep = "refresh" THEN w[Len(w) - 1] ELSE w[Len(w)]

\* err carries the status, the status text and the body text of exchange x.
Carries(err, x) ==
    /\ {"status", "statusText", "body"} \subseteq DOMAIN err
    /\ err.status = x.status
    /\ err.statusText = x.statusText
    /\ err.body = x.bodyText

\* The final exchange of the last operation was answered, with a non-2xx status.
Refused == wire # <<>> /\ FinalExchange(wire).status # 0 /\ Failed(FinalExchange(wire))

\* C6, as stated: an operation whose final response is non-2xx fails with an
\* error that carries the status, the status text and the body text of that
\* response; login and healthCheck included.
C6_ErrorCarriesResponse ==
    Refused => ~result.ok /\ Carries(result.err, FinalExchange(wire))

\* C6, amended: that holds of the operations that go through request();
\* login fails with the status and the body text but no status text,
\* printResume with the status alone, and healthCheck does not fail but
\* reports "unhealthy".
C6_ErrorCarriesResponseByOperation ==
    Refused =>
        LET x == FinalExchange(wire)
        IN CASE call.op = "healthCheck" ->
                  result.ok /\ result.val.status = "unhealthy"
             [] call.op = "login" ->
                  /\ ~result.ok
                  /\ DOMAIN result.err = {"name", "message", "status", "body"}
                  /\ result.err.status = x.status /\ result.err.body = x.bodyText
             [] call.op = "printResume" ->
                  /\ ~result.ok
                  /\ DOMAIN result.err = {"name", "message", "status"}
                  /\ result.err.status = x.status
             [] OTHER ->
                  ~result.ok /\ Carries(result.err, x)

\* getResume of a resume the upstream does not have has failed with the 404.
C6_Witness ==
    /\ call.op = "getResume"
    /\ Len(wire) = 1 /\ wire[1].status = 404
    /\ ~result.ok
    /\ result.err.status = 404 /\ result.err.statusText = "Not Found"
    /\ result.err.body = "not found"

\* C7: createResume or updateResume with visibility v, followed by the fetch
\* of that resume, reports visibility v, and listResumes reports "public"
\* exactly for the resumes stored with isPublic (the upstream stores what it
\* is sent, answers the fetch with the stored resume, and nothing else writes).
C7_VisibilityRoundTrip ==
    /\ (/\ call.op \in {"createResume", "updateResume"}
        /\ result.ok
        /\ "id" \in DOMAIN result.val
        /\ "visibility" \in DOMAIN call.dto
        => result.val.visibility = call.dto.visibility)
    /\ (call.op = "listResumes" /\ result.ok
        => \A i \in DOMAIN result.val.list :
               LET r == result.val.list[i]
               IN (r.visibility = "public") = upstream[r.id].isPublic)


-----------------------------------------------------------------------------
(* Properties of the section items (SpecAdd, SpecItems).                   *)

\* The section each add_* tool writes to.
SectionOfTool ==
    [add_experience |-> "experience", add_education |-> "education",
     add_skill |-> "skills", add_project |-> "projects"]

\* item has every argument of a that add tool op was given, under the field
\* of the same meaning, and the default of every optional one it was not.
Supplied(op, a, item) ==
    CASE op = "add_experience" ->
           /\ item.company = a.company /\ item.position = a.position
           /\ item.location = Arg(a, "location", "")
           /\ item.period = Arg(a, "date", "")
           /\ item.description = Arg(a, "summary", "")
           /\ item.website.url = Arg(a, "url", "")
      [] op = "add_education" ->
           /\ item.school = a.institution /\ item.degree = a.study_type
           /\ item.area = a.area
           /\ item.grade = Arg(a, "score", "")
           /\ item.period = Arg(a, "date", "")
           /\ item.description = Arg(a, "summary", "")
           /\ item.website.url = Arg(a, "url", "")
      [] op = "add_skill" ->
           /\ item.name = a.name
           /\ item.proficiency = Arg(a, "description", "")
           /\ item.level = Arg(a, "level", 3)
           /\ item.keywords = Arg(a, "keywords", <<>>)
      [] OTHER ->
           /\ item.name = a.name
           /\ item.period = Arg(a, "date", "")
           /\ item.website.url = Arg(a, "url", "")
           /\ "description" \in DOMAIN a => item.description = a.description
           /\ "summary" \in DOMAIN a =>
                  a.summary \in {item[f] : f \in (DOMAIN item) \cap {"description", "summary"}}
           /\ "keywords" \in DOMAIN a =>
                  "keywords" \in DOMAIN item /\ item.keywords = a.keywords

\* C8: after an add_experience, add_education, add_skill or add_project that
\* succeeded, and after an addSectionItem that succeeded, the stored resume
\* (what a full fetch returns) has the new item last in the target section,
\* with every supplied field at its supplied value and every omitted optional
\* field at its default, and the items that were there before unchanged and
\* in their order.
C8_AddedItemRoundTrip ==
    /\ (call.op \in DOMAIN SectionOfTool /\ ~IsError(result.val) =>
           LET before == ItemsOf(call.was, SectionOfTool[call.op])
               after == ItemsOf(upstream, SectionOfTool[call.op])
           IN /\ Len(after) = Len(before) + 1
              /\ SubSeq(after, 1, Len(before)) = before
              /\ after[Len(after)].id = call.id
              /\ Supplied(call.op, call.args, after[Len(after)]))
    /\ (call.op = "addSectionItem" /\ result.ok =>
           LET before == ItemsOf(call.was, call.section)
               after == ItemsOf(upstream, call.section)
           IN after = Append(before, call.item))

\* The last removal, by the client or by the tool, succeeded.
Removed ==
    \/ call.op = "removeSectionItem" /\ result.ok
    \/ call.op = "remove_section_item" /\ ~IsError(result.val)

\* The id the last removal was given.
RemovedId == IF call.op = "removeSectionItem" THEN call.itemId ELSE call.args.item_id

\* s without its p-th element.
RemoveAt(s, p) == SubSeq(s, 1, p - 1) \o SubSeq(s, p + 1, Len(s))

\* C9, as stated: a removal that succeeds removes exactly one item of the
\* given id and leaves the others in their order; when no item has the id,
\* the items are unchanged.
C9_RemovesExactlyOne ==
    Removed =>
        LET before == ItemsOf(call.was, "skills")
            after == ItemsOf(upstream, "skills")
        IN IF \E p \in DOMAIN before : before[p].id = RemovedId
           THEN \E p \in DOMAIN before : before[p].id = RemovedId /\ after = RemoveAt(before, p)
           ELSE after = before

\* C9, amended: a removal that succeeds removes every item of the given id
\* and leaves the others in their order; when no item has the id, the items
\* are unchanged.
C9_RemovesEveryMatch ==
    Removed =>
        LET before == ItemsOf(call.was, "skills")
            after == ItemsOf(upstream, "skills")
            kept == {p \in DOMAIN before : before[p].id # RemovedId}
        IN /\ Len(after) = Cardinality(kept)
           /\ \A k \in DOMAIN after :
                  \E p \in kept : /\ Cardinality({q \in kept : q < p}) = k - 1
                                  /\ after[k] = before[p]
           /\ (kept = DOMAIN before => after = before)

\* One of three items has been removed, and the two others are left in order.
C9_Witness ==
    /\ Removed
    /\ Len(ItemsOf(call.was, "skills")) = 3
    /\ ItemsOf(call.was, "skills")[2].id = RemovedId
    /\ ItemsOf(call.was, "skills")[1] # ItemsOf(call.was, "skills")[3]
    /\ ItemsOf(upstream, "skills")
           = <<ItemsOf(call.was, "skills")[1], ItemsOf(call.was, "skills")[3]>>

\* C10: toggle_section_visibility first fetches the resume, and the section
\* it then writes has the requested visibility flag, the items of the fetched
\* section (the same, in the same order) and every other field of it as
\* fetched.
C10_ToggleKeepsSection ==
    call.op = "toggle_section_visibility" /\ wire # <<>> =>
        /\ wire[1].req.method = "GET" /\ wire[1].req.ep = "resume"
        /\ wire[1].req.id = call.args.resume_id
        /\ \A i \in DOMAIN wire :
               wire[i].req.method = "PUT" =>
                   LET written == wire[i].req.body.data.sections[call.args.section]
                       fetched == Part(call.was[call.args.resume_id].data.sections,
                                       call.args.section)
                   IN /\ written.visible = call.args.visible
                      /\ Without(written, {"visible"}) = Without(fetched, {"visible"})

\* A section with two items has been hidden, and its items are as they were.
C10_Witness ==
    /\ call.op = "toggle_section_visibility"
    /\ call.args.section = "skills" /\ ~call.args.visible
    /\ ~IsError(result.val)
    /\ call.was["r1"].data.sections["skills"].visible
    /\ Len(ItemsOf(call.was, "skills")) = 2
    /\ ~upstream["r1"].data.sections["skills"].visible
    /\ ItemsOf(upstream, "skills") = ItemsOf(call.was, "skills")

-----------------------------------------------------------------------------
(* Properties of create_resume and of the start of the server (SpecStart). *)

\* The titles create_resume is given, lower-cased and with one hyphen for
\* every run of whitespace.
LowerHyphen == [t \in {"T", "My  CV"} |-> IF t = "T" THEN "t" ELSE "my-cv"]

\* C11: the first request of create_resume is the POST to the create
\* endpoint, with the title as name and, as slug, the caller's slug when one
\* is given and is not empty, and otherwise the title lower-cased with one
\* hyphen for every run of whitespace; every later request is a GET of a
\* resume; when the tool succeeds there is exactly one, and the text holds
\* the id, title and slug of the resume it returned, which is the resume
\* created.
C11_CreateSlug ==
    call.op = "create_resume" /\ wire # <<>> =>
        /\ wire[1].req.ep = "create" /\ wire[1].req.method = "POST"
        /\ wire[1].req.body.name = call.args.title
        /\ wire[1].req.body.slug = IF Truthy(Arg(call.args, "slug", Undefined))
                                   THEN call.args.slug
                                   ELSE LowerHyphen[call.args.title]
        /\ \A i \in 2..Len(wire) : wire[i].req.ep = "resume" /\ wire[i].req.method = "GET"
        /\ ~IsError(result.val) =>
               /\ Len(wire) = 2 /\ ~Failed(wire[1]) /\ ~Failed(wire[2])
               /\ wire[1].bodyText = "json" /\ wire[2].bodyText = "json" =>
                      LET created == upstream[wire[2].req.id]
                      IN /\ created.name = call.args.title
                         /\ created.slug = wire[1].req.body.slug
                         /\ result.val.content.parts
                                = <<created.id, created.name, created.slug>>

\* A resume created without a slug, under a title with two blanks in a row.
C11_Witness ==
    /\ call.op = "create_resume"
    /\ call.args = [title |-> "My  CV"]
    /\ ~IsError(result.val)
    /\ result.val.content.parts = <<"r1", "My  CV", "my-cv">>
    /\ upstream["r1"].slug = "my-cv"

-----------------------------------------------------------------------------
(* Properties of the read-modify-write methods (SpecItems, SpecRace).      *)

\* The section, item and basics methods of the client.
Mutations ==
    {"addSectionItem", "updateSectionItem", "removeSectionItem", "updateSection",
     "updateBasics"}

\* The places of the PUT requests of client key in w.
Puts(w, key) == {i \in DOMAIN w : w[i].req.method = "PUT" /\ w[i].req.xApiKey = key}

\* items is old with the change the last item method makes, and nothing else.
ItemsAsChanged(c, old, items) ==
    CASE c.op = "addSectionItem" -> items = Append(old, c.item)
      [] c.op = "removeSectionItem" ->
           items = FilterSeq(old, LAMBDA it : it.id # c.itemId)
      [] c.op = "updateSectionItem" ->
           /\ Len(items) = Len(old)
           /\ \A k \in DOMAIN old :
                  IF old[k].id = c.itemId
                  THEN /\ Without(items[k], DOMAIN c.updates) = Without(old[k], DOMAIN c.updates)
                       /\ \A f \in DOMAIN c.updates : items[k][f] = c.updates[f]
                  ELSE items[k] = old[k]
      [] OTHER -> TRUE

\* C12: a section, item or basics method issues at most one PUT, and one
\* when it succeeds; before the PUT it has issued at least one request, and
\* only GETs of the resume, all answered; the PUT body is the data of the
\* resume with its basics, sections and metadata, equal to the stored data
\* (what the GETs returned) but for the targeted basics fields, section or
\* item; and the stored resume is that data after an answered PUT, and as it
\* was otherwise.
C12_ReadModifyWrite ==
    call.op \in Mutations =>
        LET puts == Puts(wire, apiClient.apiKey)
            old == call.was["r1"].data
        IN /\ Cardinality(puts) <= 1
           /\ result.ok => Cardinality(puts) = 1
           /\ \A p \in puts :
                  /\ p > 1
                  /\ \A i \in 1..(p - 1) :
                         /\ wire[i].req.method = "GET" /\ wire[i].req.ep = "resume"
                         /\ wire[i].req.id = "r1" /\ ~Failed(wire[i])
                  /\ wire[p].req.ep = "resume" /\ wire[p].req.id = "r1"
                  /\ DOMAIN wire[p].req.body = {"data"}
                  /\ LET sent == wire[p].req.body.data
                     IN /\ DOMAIN sent = {"basics", "sections", "metadata"}
                        /\ sent.metadata = old.metadata
                        /\ IF call.op = "updateBasics"
                           THEN /\ sent.sections = old.sections
                                /\ Without(sent.basics, DOMAIN call.basics)
                                       = Without(old.basics, DOMAIN call.basics)
                                /\ \A f \in DOMAIN call.basics : sent.basics[f] = call.basics[f]
                           ELSE /\ sent.basics = old.basics
                                /\ Without(sent.sections, {call.section})
                                       = Without(old.sections, {call.section})
                                /\ call.op # "updateSection" =>
                                       /\ Without(sent.sections[call.section], {"items"})
                                              = Without(old.sections[call.section], {"items"})
                                       /\ ItemsAsChanged(call, old.sections[call.section].items,
                                                         sent.sections[call.section].items)
                        /\ upstream = IF Failed(wire[p]) THEN call.was
                                      ELSE [call.was EXCEPT !["r1"].data = sent]
           /\ puts = {} => upstream = call.was

\* updateBasics has changed the name in the basics of a resume that holds
\* two skills, and nothing else.
C12_Witness ==
    /\ call.op = "updateBasics" /\ result.ok
    /\ Len(wire) = 4 /\ Puts(wire, apiClient.apiKey) = {3}
    /\ Len(ItemsOf(call.was, "skills")) = 2
    /\ call.was["r1"].data.basics.name # "N"
    /\ upstream = [call.was EXCEPT !["r1"].data.basics.name = "N"]

\* The data of resume r1 in the store after the first j exchanges of w, in
\* an operation that started from data d: every PUT here carries the data.
RECURSIVE DataAfter(_, _, _)
DataAfter(w, j, d) ==
    IF j = 0 THEN d
    ELSE IF w[j].req.method = "PUT" /\ ~Failed(w[j]) THEN w[j].req.body.data
    ELSE DataAfter(w, j - 1, d)

\* The place in w of the n-th request of the client with API key key.
NthOf(w, key, n) ==
    CHOOSE i \in DOMAIN w :
        /\ w[i].req.xApiKey = key
        /\ Cardinality({j \in 1..i : w[j].req.xApiKey = key}) = n

\* The field of the data d that the writer of kind k writes.
FieldOf(d, k) ==
    CASE k = "w-same" -> d.sections["skills"].name
      [] k = "w-other" -> d.sections["projects"].name
      [] OTHER -> d.basics.headline

\* The GET by which operation op reads what writer k writes: addSectionItem
\* takes the section from its first GET, the other sections from its second
\* and the basics from its third; updateBasics takes the basics from its
\* first GET and the sections from its second.
ReadBy(op, k) ==
    IF op = "addSectionItem"
    THEN CASE k = "w-same" -> 1 [] k = "w-other" -> 2 [] OTHER -> 3
    ELSE IF k = "w-basics" THEN 1 ELSE 2

\* C13: with another client writing between the requests of a
\* read-modify-write method, every request of both is answered with 2xx and
\* the method succeeds; each field of the data it PUTs has the value the
\* store held when the method read it, whatever has been written since, so
\* that a write made between that read and the PUT is gone from the store
\* once the PUT is answered; the store ends with the data of the last PUT.
C13_NoConcurrencyCheck ==
    call.op \in Mutations =>
        LET key == apiClient.apiKey
            old == call.was["r1"].data
            p == NthOf(wire, key, IF call.op = "addSectionItem" THEN 4 ELSE 3)
            sent == wire[p].req.body.data
        IN /\ result.ok
           /\ \A i \in DOMAIN wire : ~Failed(wire[i])
           /\ Puts(wire, key) = {p}
           /\ \A k \in Writers :
                  LET read == NthOf(wire, key, ReadBy(call.op, k))
                  IN /\ FieldOf(sent, k) = FieldOf(DataAfter(wire, read, old), k)
                     /\ \A j \in (read + 1)..(p - 1) :
                            FieldOf(DataAfter(wire, j, old), k) # FieldOf(sent, k)
                                => FieldOf(DataAfter(wire, p, old), k)
                                       # FieldOf(DataAfter(wire, j, old), k)
           /\ upstream["r1"].data = DataAfter(wire, Len(wire), old)

\* addSectionItem has succeeded while another client wrote to the same
\* section after its first GET, to another section after its second and to
\* the basics after its third: all eight requests were answered with 200,
\* and none of the three writes is in the store.
C13_Witness ==
    /\ call.op = "addSectionItem" /\ result.ok
    /\ Len(wire) = 8
    /\ \A i \in DOMAIN wire : wire[i].status = 200
    /\ {i \in DOMAIN wire : wire[i].req.xApiKey = "k9"} = {2, 4, 6}
    /\ LET old == call.was["r1"].data
       IN /\ FieldOf(DataAfter(wire, 2, old), "w-same") # FieldOf(old, "w-same")
          /\ FieldOf(DataAfter(wire, 4, old), "w-other") # FieldOf(old, "w-other")
          /\ FieldOf(DataAfter(wire, 6, old), "w-basics") # FieldOf(old, "w-basics")
          /\ upstream["r1"].data
                 = [old EXCEPT !.sections["skills"].items = Append(@, call.item)]

-----------------------------------------------------------------------------
(* Properties of the credentials (Spec, SpecClient).                       *)

\* C15: a tool other than authenticate and set_base_url, whatever its
\* requests are answered with, leaves the client object as it was: its API
\* key, access token, refresh token and cookies (and its base URL).
C15_CredentialsKept ==
    [][call'.op \in ToolNames \ {"authenticate", "set_base_url"} => apiClient' = apiClient]_vars

\* list_resumes was refused with 401 while the client held a session, and
\* the client holds it still.
C15_Witness ==
    /\ call.op = "list_resumes"
    /\ Len(wire) = 1 /\ wire[1].status = 401
    /\ wire[1].req.authorization = "t1" /\ wire[1].req.cookie # <<>>
    /\ IsError(result.val)
    /\ apiClient.accessToken = "t1" /\ apiClient.cookies = wire[1].req.cookie

\* Client c holds no API key, no token and no cookie.
Bare(c) ==
    /\ c.apiKey = Null /\ c.accessToken = Null /\ c.refreshToken = Null
    /\ c.cookies = <<>>

\* C16: set_base_url leaves a client of the given URL (without a trailing
\* slash) that holds no API key, no token and no cookie, whatever the client
\* before held; and as long as the client holds none, every request goes to
\* its base URL without an x-api-key, an Authorization or a Cookie header,
\* and only an authenticate that succeeds ends that (and only set_base_url
\* changes the base URL).
C16_SetBaseUrlDropsSession ==
    [][/\ call'.op = "set_base_url" =>
              /\ Bare(apiClient')
              /\ apiClient'.baseUrl
                     = (IF call'.args.url = "https://b/" THEN "https://b" ELSE call'.args.url)
              /\ wire' = <<>>
       /\ call'.op \in ToolNames /\ Bare(apiClient) =>
              /\ \A i \in DOMAIN wire' :
                     /\ wire'[i].req.xApiKey = NoHeader
                     /\ wire'[i].req.authorization = NoHeader
                     /\ wire'[i].req.cookie = <<>>
                     /\ wire'[i].req.base = apiClient.baseUrl
              /\ call'.op # "set_base_url" => apiClient'.baseUrl = apiClient.baseUrl
              /\ ~(call'.op = "authenticate" /\ ~IsError(result'.val))
                     => Bare(apiClient')]_vars

\* set_base_url has replaced a client that held the API key of the
\* environment and a session by one that holds nothing.
C16_Witness ==
    /\ call.op = "set_base_url" /\ call.args.url = "https://b/"
    /\ call.had.apiKey = "k0" /\ call.had.accessToken = "t1" /\ call.had.cookies # <<>>
    /\ call.had.baseUrl = "https://a"
    /\ apiClient.baseUrl = "https://b" /\ Bare(apiClient)

\* C17: no request carries both the x-api-key header and a session
\* credential (an Authorization bearer header or the session cookies).
C17_KeyOrSession ==
    \A i \in DOMAIN wire :
        ~(/\ wire[i].req.xApiKey # NoHeader
          /\ (wire[i].req.authorization # NoHeader \/ wire[i].req.cookie # <<>>))

\* C18: when the last response of getResumeSchema (which returns what
\* request() returns) is 2xx, on the first attempt or on the one after a
\* refresh, the method returns the parsed body when the content type is
\* JSON and the raw text when it is not.
C18_ParsedByContentType ==
    call.op = "getResumeSchema" /\ wire # <<>> /\ ~Failed(FinalExchange(wire)) =>
        /\ result.ok
        /\ IF FinalExchange(wire).bodyText = "json"
           THEN result.val = EmptyObj
           ELSE result.val = [text |-> FinalExchange(wire).bodyText]

-----------------------------------------------------------------------------
(* Properties of the start of the server (SpecStart), where no tool that   *)
(* writes the credentials is invoked.                                      *)

\* Exchange x carries a credential: an API key, a bearer token or a cookie.
Credentialed(x) ==
    x.req.xApiKey # NoHeader \/ x.req.authorization # NoHeader \/ x.req.cookie # <<>>

\* C19: the client holds the API key of the environment when there is one;
\* and when the environment holds an API key, or an email and a password,
\* every request a tool makes through request() carries a credential,
\* without an authenticate call.
C19_StartsWithCredential ==
    LET env == process.env
    IN /\ Truthy(env.RXRESUME_API_KEY) => apiClient.apiKey = env.RXRESUME_API_KEY
       /\ (\/ Truthy(env.RXRESUME_API_KEY)
           \/ Truthy(env.RXRESUME_EMAIL) /\ Truthy(env.RXRESUME_PASSWORD))
              => \A i \in DOMAIN wire : ByRequest(wire[i]) => Credentialed(wire[i])

\* C20, as stated: a process launched while the base URL is unreachable does
\* not come to serve tool invocations, a process that has exited has a
\* non-zero exit status, and a running process stays running.
C20_ExitsWhenUnreachable ==
    [][/\ answers = {"net"} => process'.status # "running"
       /\ process'.status = "exited" => process'.exitCode # 0
       /\ process.status = "running" => process'.status = "running"]_vars

\* C20, amended: the process leaves its launch either running or, when the
\* transport failed to connect, exited with status 1, and that without a
\* request or a tool invocation, whether or not the base URL is reachable;
\* no tool is invoked unless it is running; and once it is running every
\* tool invocation resolves to a response and leaves it running.
C20_ExitsWhenTransportFails ==
    [][/\ process.status = "launching" =>
              /\ process'.status = "running"
                     \/ (process'.status = "exited" /\ process'.exitCode = 1)
              /\ process'.env = process.env
              /\ UNCHANGED <<apiClient, upstream, answers, wire, call, result>>
              /\ wire = <<>> /\ call.op = "idle"
       /\ process.status = "exited" => UNCHANGED vars
       /\ process.status = "running" =>
              /\ process' = process
              /\ call'.op \in ToolNames => result'.ok]_vars

\* The server runs although the base URL is unreachable: list_resumes has
\* failed on the network and has returned an error response.
C20_Witness ==
    /\ answers = {"net"}
    /\ process.status = "running" /\ process.exitCode = 0
    /\ call.op = "list_resumes"
    /\ Len(wire) = 1 /\ wire[1].status = 0
    /\ result.ok /\ IsError(result.val)

-----------------------------------------------------------------------------
(* Properties of the tools' arguments and failures (Spec).                 *)

\* C21: update_section_item called with an updates text that is not
\* well-formed JSON returns an error-flagged response without a request,
\* and the upstream resumes are as they were.
C21_MalformedUpdates ==
    call.op = "update_section_item" /\ ~call.args.updates.wellFormed =>
        /\ result.ok /\ IsError(result.val)
        /\ result.val.content.error = SyntaxErrorJson
        /\ wire = <<>>
        /\ upstream = call.was

\* update_section_item has refused an updates text that does not parse,
\* for a resume that exists upstream.
C21_Witness ==
    /\ call.op = "update_section_item" /\ ~call.args.updates.wellFormed
    /\ call.args.resume_id \in DOMAIN upstream
    /\ IsError(result.val) /\ wire = <<>>

\* Argument k is given in a: the key is there.
Given(a, k) == k \in DOMAIN a

\* Argument k is given in a and is not the empty text.
NonEmpty(a, k) == k \in DOMAIN a /\ a[k] # ""

\* What authenticate does with the API key (byKey) or, without it, with
\* an identifier and a password (bySignIn), from client c to client d.
Authenticated(byKey, bySignIn, a, c, d, w, res) ==
    /\ byKey =>
           /\ d = [c EXCEPT !.apiKey = a.api_key]
           /\ w = <<>>
           /\ ~IsError(res)
    /\ ~byKey /\ bySignIn =>
           /\ Len(w) = 1
           /\ w[1].req.ep = "sign-in" /\ w[1].req.method = "POST"
           /\ w[1].req.body = [email |-> a.identifier, password |-> a.password]
    /\ ~byKey /\ ~bySignIn =>
           /\ IsError(res)
           /\ w = <<>>
           /\ d = c

\* C22, as stated: authenticate stores the API key and issues no request
\* when api_key is given; issues exactly one login request when api_key is
\* absent and identifier and password are given; and otherwise returns an
\* error-flagged response without a request or a change of the credentials.
C22_AuthenticatePrefersGivenKey ==
    [][call'.op = "authenticate" =>
          Authenticated(Given(call'.args, "api_key"),
                        Given(call'.args, "identifier") /\ Given(call'.args, "password"),
                        call'.args, apiClient, apiClient', wire', result'.val)]_vars

\* C22, amended: the same, where an argument that is the empty text counts
\* as absent.
C22_AuthenticatePrefersKey ==
    [][call'.op = "authenticate" =>
          Authenticated(NonEmpty(call'.args, "api_key"),
                        NonEmpty(call'.args, "identifier") /\ NonEmpty(call'.args, "password"),
                        call'.args, apiClient, apiClient', wire', result'.val)]_vars

\* authenticate was given an API key together with an identifier and a
\* password while the client held a session: it has stored the key, has
\* kept the session and has made no request.
C22_Witness ==
    /\ call.op = "authenticate"
    /\ DOMAIN call.args = {"api_key", "identifier", "password"}
    /\ call.args.api_key = "k1" /\ apiClient.apiKey = "k1"
    /\ apiClient.accessToken = "t1"
    /\ wire = <<>> /\ ~IsError(result.val)

-----------------------------------------------------------------------------
(* Properties of the 401 handling and of login (SpecClient, Spec).         *)

\* C23: while the client holds an API key, a request of request() that is
\* answered with 401 is followed neither by a refresh request nor by a
\* request sent again, also when a refresh token is held; the access token
\* (and the refresh token) are as they were, and the error of request() is
\* the one of the 401: it is the error of the operation, and in
\* healthCheck, which catches it, the GET of the base URL follows.
C23_NoRefreshWithKey ==
    [][\A i \in DOMAIN wire' :
          (/\ Truthy(apiClient.apiKey)
           /\ wire'[i].status = 401
           /\ ByRequest(wire'[i]))
          => /\ wire'[i].req.xApiKey = apiClient.apiKey
             /\ \A j \in DOMAIN wire' : wire'[j].req.ep # "refresh"
             /\ apiClient'.accessToken
                    = (IF call'.op = "loginWithTokens" THEN "a0" ELSE apiClient.accessToken)
             /\ apiClient'.refreshToken
                    = (IF call'.op = "loginWithTokens" THEN "f0" ELSE apiClient.refreshToken)
             /\ IF call'.op = "healthCheck"
                THEN i + 1 = Len(wire') /\ wire'[i + 1].req.ep = "root"
                ELSE /\ i = Len(wire')
                     /\ ~result'.ok /\ result'.err = ErrorOf(wire'[i])]_vars

\* A client that holds an API key, an access token and a refresh token was
\* refused with 401: the one request is all it sent, and it holds the same
\* tokens.
C23_Witness ==
    /\ call.op = "getResume"
    /\ apiClient.apiKey = "k1"
    /\ apiClient.refreshToken = "f0" /\ apiClient.accessToken = "a0"
    /\ Len(wire) = 1 /\ wire[1].status = 401 /\ wire[1].req.xApiKey = "k1"
    /\ ~result.ok /\ result.err = ErrorOf(wire[1])

-----------------------------------------------------------------------------
(* Properties of what the mutations write (SpecItems, SpecAdd).            *)

\* Item it with the fields of u laid over it.
Overlaid(it, u) ==
    [f \in (DOMAIN it) \cup (DOMAIN u) |-> IF f \in DOMAIN u THEN u[f] ELSE it[f]]

\* C24: the section updateSectionItem writes has an item list of the length
\* and order of the fetched one, where each item of the given id is the
\* fetched item with the update fields laid over it and every other item
\* is the fetched item; the rest of the section is as fetched, so that the
\* written section is the fetched one when no item has the id.
C24_UpdatesMatchingItems ==
    call.op = "updateSectionItem" =>
        \A p \in Puts(wire, apiClient.apiKey) :
            LET fetched == call.was["r1"].data.sections[call.section]
                written == wire[p].req.body.data.sections[call.section]
            IN /\ DOMAIN written = DOMAIN fetched
               /\ \A f \in (DOMAIN fetched) \ {"items"} : written[f] = fetched[f]
               /\ Len(written.items) = Len(fetched.items)
               /\ \A k \in DOMAIN fetched.items :
                      written.items[k] = IF fetched.items[k].id = call.itemId
                                         THEN Overlaid(fetched.items[k], call.updates)
                                         ELSE fetched.items[k]
               /\ (\A k \in DOMAIN fetched.items : fetched.items[k].id # call.itemId)
                      => written = fetched

\* updateSectionItem has renamed the second of three skills, the two of
\* another id around it being as they were.
C24_Witness ==
    /\ call.op = "updateSectionItem" /\ result.ok
    /\ Puts(wire, apiClient.apiKey) # {}
    /\ Len(ItemsOf(call.was, "skills")) = 3
    /\ ItemsOf(call.was, "skills")[2] = [id |-> call.itemId, name |-> "x"]
    /\ ItemsOf(call.was, "skills")[1].id # call.itemId
    /\ ItemsOf(call.was, "skills")[3].id # call.itemId
    /\ ItemsOf(upstream, "skills")
           = [ItemsOf(call.was, "skills") EXCEPT ![2] = [id |-> call.itemId, name |-> "y"]]

\* updateSectionItem was given an id no item has, and has written the
\* section it fetched.
C24_WitnessNoItem ==
    /\ call.op = "updateSectionItem" /\ result.ok
    /\ Len(ItemsOf(call.was, "skills")) = 2
    /\ \A k \in 1..2 : ItemsOf(call.was, "skills")[k].id # call.itemId
    /\ upstream = call.was

\* The basics fields that are texts.
BasicsFields == {"name", "headline", "email", "phone", "location"}

\* Basics new keeps of basics old every field that is not in given, and
\* the halves of the URL that are not in halves.
BasicsKept(old, new, given, halves) ==
    /\ DOMAIN new = DOMAIN old
    /\ \A f \in BasicsFields \ given : new[f] = old[f]
    /\ "url" \notin given =>
           /\ "label" \notin halves => new.url.label = old.url.label
           /\ "href" \notin halves => new.url.href = old.url.href

\* The halves of the URL update_resume_basics was given in a.
HalvesOf(a) ==
    {h \in {"label", "href"} : (IF h = "label" THEN "url_label" ELSE "url_href") \in DOMAIN a}

\* C25: update_resume_basics and updateBasics leave every basics field the
\* caller did not supply as it was fetched, in what they send and in what
\* is stored (of the URL, the half that was not supplied), and nothing but
\* the basics changes; and with no other writer the resume updateBasics
\* returns, and the one stored after a tool call that succeeded, holds the
\* supplied value in each supplied field.
C25_BasicsFrame ==
    /\ call.op \in {"update_resume_basics", "updateBasics"} =>
           /\ Without(upstream["r1"], {"data"}) = Without(call.was["r1"], {"data"})
           /\ Without(upstream["r1"].data, {"basics"}) = Without(call.was["r1"].data, {"basics"})
    /\ call.op = "update_resume_basics" =>
           LET a == call.args
               old == call.was["r1"].data.basics
               new == upstream["r1"].data.basics
           IN /\ BasicsKept(old, new, DOMAIN a, HalvesOf(a))
              /\ \A p \in Puts(wire, apiClient.apiKey) :
                     BasicsKept(old, wire[p].req.body.data.basics, DOMAIN a, HalvesOf(a))
              /\ ~IsError(result.val) =>
                     /\ \A f \in BasicsFields \cap DOMAIN a : new[f] = a[f]
                     /\ "url_label" \in DOMAIN a => new.url.label = a.url_label
                     /\ "url_href" \in DOMAIN a => new.url.href = a.url_href
    /\ call.op = "updateBasics" =>
           LET old == call.was["r1"].data.basics
           IN /\ BasicsKept(old, upstream["r1"].data.basics, DOMAIN call.basics, {})
              /\ \A p \in Puts(wire, apiClient.apiKey) :
                     BasicsKept(old, wire[p].req.body.data.basics, DOMAIN call.basics, {})
              /\ result.ok =>
                     /\ BasicsKept(old, result.val.data.basics, DOMAIN call.basics, {})
                     /\ \A f \in DOMAIN call.basics :
                            result.val.data.basics[f] = call.basics[f]

\* update_resume_basics was given the label alone for a resume whose URL
\* had an address, and the stored URL has the new label and that address.
C25_Witness ==
    /\ call.op = "update_resume_basics" /\ ~IsError(result.val)
    /\ DOMAIN call.args = {"resume_id", "url_label"}
    /\ call.was["r1"].data.basics.url = [label |-> "", href |-> "https://g"]
    /\ call.was["r1"].data.basics.name = "M"
    /\ upstream["r1"].data.basics
           = [call.was["r1"].data.basics EXCEPT !.url.label = "L"]

\* updateBasics has returned the resume with the two fields it was given,
\* the others being as they were.
C25_WitnessClient ==
    /\ call.op = "updateBasics" /\ result.ok
    /\ call.basics = [name |-> "M", email |-> "e@x"]
    /\ call.was["r1"].data.basics.headline = "H"
    /\ call.was["r1"].data.basics.name = "N"
    /\ result.val.data.basics
           = [call.was["r1"].data.basics EXCEPT !.name = "M", !.email = "e@x"]

-----------------------------------------------------------------------------
(* Properties of the failures of the tools (Spec).                         *)

\* The tools that fetch a resume, change it and write it back.
RmwTools ==
    {"update_resume_basics", "update_summary", "add_experience", "add_education",
     "add_skill", "add_project", "update_section_item", "remove_section_item",
     "toggle_section_visibility"}

\* C26: when a GET that a read-modify-write tool issues before any PUT
\* fails, it is the last request of the tool: no PUT is issued, the stored
\* resumes are as they were, and the tool returns an error-flagged response
\* that carries the error of that GET.
C26_FailedFetchStops ==
    call.op \in RmwTools =>
        \A i \in DOMAIN wire :
            (/\ wire[i].req.method = "GET"
             /\ Failed(wire[i])
             /\ \A j \in 1..(i - 1) : wire[j].req.method # "PUT")
            => /\ i = Len(wire)
               /\ \A j \in DOMAIN wire : wire[j].req.method # "PUT"
               /\ upstream = call.was
               /\ result.ok /\ IsError(result.val)
               /\ result.val.content.error = ErrorOf(wire[i])

\* update_summary has fetched the resume once, its second fetch has got no
\* answer, and it has returned an error without writing.
C26_Witness ==
    /\ call.op = "update_summary"
    /\ Len(wire) = 2
    /\ wire[1].req.method = "GET" /\ wire[1].status = 200
    /\ wire[2].req.method = "GET" /\ wire[2].status = 0
    /\ IsError(result.val) /\ upstream = call.was

\* The tools that write to the upstream.
MutatingTools ==
    RmwTools \cup {"create_resume", "update_resume_visibility", "delete_resume"}

\* C27: a mutating tool that returns an error-flagged response has left the
\* stored resumes as they were before the invocation.
C27_ErrorMeansNotApplied ==
    call.op \in MutatingTools /\ IsError(result.val) => upstream = call.was

-----------------------------------------------------------------------------
(* Properties of the tools that read (Spec).                               *)

ReadOnlyTools ==
    {"check_connection", "get_current_user", "list_resumes", "get_resume",
     "get_resume_section", "export_resume_json"}

\* The tools that read issue GET requests only, and leave the stored
\* resumes as they were.
ReadsOnly ==
    call.op \in ReadOnlyTools =>
        /\ \A i \in DOMAIN wire : wire[i].req.method = "GET"
        /\ upstream = call.was

\* What get_resume resolves to for the arguments, the client and the stored
\* resumes of the last call, when its requests are answered as wire shows.
AsGetResume ==
    {o \in get_resume([cl |-> apiClient, up |-> call.was, log |-> <<>>, env |-> answers],
                      call.args) : o.m.log = wire}

\* C28, as stated: the tools that read write nothing, and export_resume_json
\* returns the text get_resume returns for the same id, the same stored
\* resumes and the same answers of the upstream.
C28_ExportIsGetResume ==
    /\ ReadsOnly
    /\ call.op = "export_resume_json" =>
           \E o \in AsGetResume : o.val.content = result.val.content

\* C28, amended: the texts are the same when the resume is returned; when
\* it is not, both responses are error-flagged and carry the same error,
\* each behind the tool's own words.
C28_ExportIsGetResumeButErrors ==
    /\ ReadsOnly
    /\ call.op = "export_resume_json" =>
           \E o \in AsGetResume :
               IF IsError(result.val)
               THEN /\ IsError(o.val)
                    /\ o.val.content.error = result.val.content.error
                    /\ o.val.content.prefix = "Failed to get resume"
                    /\ result.val.content.prefix = "Failed to export"
               ELSE o.val = result.val

\* export_resume_json has returned the text of a stored resume.
C28_Witness ==
    /\ call.op = "export_resume_json" /\ call.args.resume_id = "r1"
    /\ Len(wire) = 1 /\ wire[1].status = 200 /\ wire[1].bodyText = "json"
    /\ ~IsError(result.val)
    /\ result.val.content.isString
    /\ result.val.content.jsonOf.id = "r1"
    /\ result.val.content.jsonOf.data = upstream["r1"].data

-----------------------------------------------------------------------------
(* Properties of the session of the server (Spec).                         *)

\* The client of the server holds no refresh token, and no request of a
\* tool is a refresh request.
NeverRefreshes ==
    /\ apiClient.refreshToken = Null
    /\ \A i \in DOMAIN wire : wire[i].req.ep # "refresh"

\* C29, as stated: in a session driven through the tools the client never
\* holds a refresh token, no refresh request is issued, and a request that
\* is answered with 401 is the last of its tool, which returns an
\* error-flagged response.
C29_Every401IsTheError ==
    /\ NeverRefreshes
    /\ \A i \in DOMAIN wire :
           wire[i].status = 401 => i = Len(wire) /\ IsError(result.val)

\* C29, amended: that holds of every tool but check_connection, where a
\* 401 to the health request is followed by the GET of the base URL, and
\* a 401 to that one is the last exchange and is reported as the status
\* of the server, without an error flag.
C29_Every401IsTheErrorButHealth ==
    /\ NeverRefreshes
    /\ \A i \in DOMAIN wire :
           wire[i].status = 401 =>
               IF call.op # "check_connection"
               THEN i = Len(wire) /\ IsError(result.val)
               ELSE IF wire[i].req.ep = "health"
               THEN i = 1 /\ Len(wire) = 2 /\ wire[2].req.ep = "root"
               ELSE /\ wire[i].req.ep = "root" /\ i = Len(wire)
                    /\ ~IsError(result.val)
                    /\ result.val.content.parts = <<"unhealthy">>

\* get_resume of a signed-in client was refused with 401: the client holds
\* its session token and no refresh token, and the one request is all the
\* tool sent.
C29_Witness ==
    /\ call.op = "get_resume"
    /\ apiClient.accessToken = "t1" /\ apiClient.refreshToken = Null
    /\ apiClient.apiKey = Null
    /\ Len(wire) = 1 /\ wire[1].status = 401 /\ wire[1].req.authorization = "t1"
    /\ IsError(result.val)

\* check_connection was refused with 401 and has reported a healthy server.
C29_WitnessHealth ==
    /\ call.op = "check_connection"
    /\ Len(wire) = 2 /\ wire[1].status = 401 /\ wire[1].req.ep = "health"
    /\ wire[2].status = 200
    /\ ~IsError(result.val) /\ result.val.content.parts = <<"healthy">>

-----------------------------------------------------------------------------
(* Properties of login (SpecClient, Spec).                                 *)

\* What the one request of a login does to the credentials, from client c
\* to client d: nothing when it failed or brought no cookie, and otherwise
\* the cookies it brought are the cookies held, in the place of those held
\* before, the API key and the refresh token being as they were.
LoggedIn(w, c, d) ==
    /\ Len(w) = 1 /\ w[1].req.ep = "sign-in"
    /\ IF Failed(w[1]) \/ w[1].setCookie = <<>>
       THEN d = c
       ELSE /\ Len(d.cookies) = Len(w[1].setCookie)
            /\ \A k \in DOMAIN d.cookies :
                   d.cookies[k] = [name |-> w[1].setCookie[k].name,
                                   value |-> w[1].setCookie[k].value]
            /\ d.apiKey = c.apiKey /\ d.refreshToken = c.refreshToken
            /\ d.baseUrl = c.baseUrl

\* C30: a login whose request gets a non-2xx answer or none fails and
\* leaves the cookies, the access token, the refresh token and the API key
\* of the client as they were; a login that succeeds with cookies holds
\* those cookies and not the ones held before.
C30_FailedLoginKeepsCredentials ==
    [][call'.op = "login" =>
          /\ LoggedIn(wire', apiClient, apiClient')
          /\ Failed(wire'[1]) => ~result'.ok]_vars

\* The same of authenticate in the server: when the login request fails
\* the response is error-flagged and the client is as it was.
C30_FailedAuthenticateKeepsSession ==
    [][call'.op = "authenticate" /\ wire' # <<>> =>
          /\ LoggedIn(wire', apiClient, apiClient')
          /\ Failed(wire'[1]) => IsError(result'.val)]_vars

\* A login was refused while the client held an API key, the cookie and
\* the token of a session, and a refresh token: it holds them all still.
C30_Witness ==
    /\ call.op = "login" /\ ~result.ok
    /\ Len(wire) = 1 /\ wire[1].status = 401
    /\ apiClient.apiKey = "k1"
    /\ apiClient.accessToken = "t1" /\ apiClient.refreshToken = "f0"
    /\ apiClient.cookies = <<[name |-> "better-auth.session_token", value |-> "t1"]>>

====
